---------------------------- MODULE Spec2Model ----------------------------
(***************************************************************************)
(* A model of the extraction / parsing / validation pipeline of            *)
(* scripts/ai_extraction.                                                  *)
(*                                                                         *)
(* Representation of Python values                                         *)
(*   - a str that the code inspects character by character (ids, titles,   *)
(*     comments, links, descriptions, tags) is a sequence of one-character *)
(*     strings, <<"a", "-", "1">>; the empty tuple is the empty str;       *)
(*   - a str that the code only compares as a whole (timezone, category)   *)
(*     is a TLA+ string;                                                   *)
(*   - an ISO-8601 deadline str is a record of its numeric groups, see     *)
(*     Deadline below;                                                     *)
(*   - a character outside ASCII is the string of its code point,          *)
(*     "U+5E74";                                                           *)
(*   - Optional[X] is a sequence of X of length 0 (None) or 1;             *)
(*   - a call's outcome is a record whose field raised names the exception *)
(*     that left the call ("" when it returned).                           *)
(***************************************************************************)
EXTENDS Integers, Sequences, FiniteSets, TLC

VARIABLES
    validator,      \* the DataValidator instance (loaded corpus)
    settings,       \* config.settings as far as the validator reads it
    activity,       \* the ParsedActivity last handed to validate
    validation,     \* the outcome of that validate call
    source_text,    \* the text handed to the extraction functions or a parser
    extracted,      \* the outcome of the last extract_time_info / extract_place_info
    parser,         \* the parser instance and what its LLM call will do
    parsed,         \* the outcome of the last parse call
    run,            \* the last run of an entry point (main, extract_activity_workflow)
    generated       \* the ID that an ID generator last returned

validate_vars == <<validator, settings, activity, validation>>
parse_vars == <<source_text, extracted, parser, parsed>>

vars == <<validator, settings, activity, validation, source_text, extracted, parser, parsed,
          run, generated>>

---------------------------------------------------------------------------
(* Generic helpers                                                         *)

Range(s) == {s[i] : i \in 1..Len(s)}

\* All sequences over S of length 0..n
SeqsUpTo(S, n) == UNION {[1..k -> S] : k \in 0..n}

\* Python str.strip() on a character sequence: whitespace is " ", "\t", "\n".
Whitespace == {" ", "\t", "\n"}

RECURSIVE lstrip(_)
lstrip(s) ==
    IF s = <<>> THEN <<>>
    ELSE IF Head(s) \in Whitespace THEN lstrip(Tail(s)) ELSE s

RECURSIVE rstrip(_)
rstrip(s) ==
    IF s = <<>> THEN <<>>
    ELSE IF s[Len(s)] \in Whitespace THEN rstrip(SubSeq(s, 1, Len(s) - 1)) ELSE s

strip(s) == rstrip(lstrip(s))

\* n copies of the character c
Rep(c, n) == [i \in 1..n |-> c]

---------------------------------------------------------------------------
(* config.py                                                               *)

IANA_TIMEZONES ==
    { "Asia/Shanghai", "Asia/Beijing", "Asia/Tokyo", "Asia/Seoul",
      "Asia/Singapore", "Asia/Hong_Kong", "Asia/Taipei", "Asia/Bangkok",
      "America/New_York", "America/Los_Angeles", "America/Chicago",
      "America/Denver", "Europe/London", "Europe/Paris", "Europe/Berlin",
      "Europe/Moscow", "UTC" }

DESCRIPTION_MAX_LENGTH == 100

\* DATA_FILE_MAP's keys, in the dict's order
DATA_FILE_MAP == <<"activity", "competition", "conference">>

ActivityCategory == {"conference", "competition", "activity"}

---------------------------------------------------------------------------
(* Deadlines: the str  f"{y}-{m:02d}-{d:02d}T{h:02d}:{mi:02d}:{s:02d}{tz}" *)
(* is [iso |-> TRUE, y, m, d, h, mi, s, tz]; tz is "" (naive), "Z" or      *)
(* "+HH:MM".  A str of any other shape is a record with iso = FALSE.       *)

Deadline(y, m, d, h, mi, s, tz) ==
    [iso |-> TRUE, y |-> y, m |-> m, d |-> d, h |-> h, mi |-> mi, s |-> s, tz |-> tz]

NotIso == [iso |-> FALSE, y |-> 0, m |-> 0, d |-> 0, h |-> 0, mi |-> 0, s |-> 0, tz |-> ""]

\* str.replace('Z', '+00:00') on a deadline
replace_Z(dl) == IF dl.iso /\ dl.tz = "Z" THEN [dl EXCEPT !.tz = "+00:00"] ELSE dl

TzOffsets == [tz \in {"+00:00", "+08:00", "-05:00"} |->
                 CASE tz = "+00:00" -> 0 [] tz = "+08:00" -> 480 [] tz = "-05:00" -> -300]

IsLeap(y) == (y % 4 = 0 /\ y % 100 # 0) \/ y % 400 = 0

DaysInMonth(y, m) ==
    CASE m \in {1, 3, 5, 7, 8, 10, 12} -> 31
      [] m \in {4, 6, 9, 11} -> 30
      [] m = 2 -> IF IsLeap(y) THEN 29 ELSE 28
      [] OTHER -> 0

\* datetime.fromisoformat: [ok, aware, ...]; ok = FALSE stands for ValueError.
\* The year must be written with four digits, and every group must be in range.
iso_parses(dl) ==
    /\ dl.iso
    /\ dl.y >= 1000 /\ dl.y <= 9999
    /\ dl.m >= 1 /\ dl.m <= 12
    /\ dl.d >= 1 /\ dl.d <= DaysInMonth(dl.y, dl.m)
    /\ dl.h >= 0 /\ dl.h <= 23
    /\ dl.mi >= 0 /\ dl.mi <= 59
    /\ dl.s >= 0 /\ dl.s <= 59
    /\ dl.tz \in {""} \cup DOMAIN TzOffsets

parsed_datetime(dl, ok) == [ok |-> ok, aware |-> ok /\ dl.tz # "", dt |-> dl]

fromisoformat(dl) == parsed_datetime(dl, iso_parses(dl))

\* Days since 0000-03-01 of a valid civil date (proleptic Gregorian)
DayNumberShifted(yy, mm, d) ==
    365 * yy + (yy \div 4) - (yy \div 100) + (yy \div 400)
      + ((153 * mm + 2) \div 5) + d - 1

DayNumber(y, m, d) ==
    DayNumberShifted(IF m <= 2 THEN y - 1 ELSE y, IF m <= 2 THEN m + 9 ELSE m - 3, d)

\* datetime.__lt__ for two parsed datetimes of the same awareness
utcoffset(a) == IF a.tz = "" THEN 0 ELSE TzOffsets[a.tz]

\* The minutes from b to a, seconds apart
minutes_between(a, b) ==
    (DayNumber(a.y, a.m, a.d) - DayNumber(b.y, b.m, b.d)) * 1440
      + (a.h * 60 + a.mi - utcoffset(a)) - (b.h * 60 + b.mi - utcoffset(b))

earlier(mina, a, b) == mina < 0 \/ (mina = 0 /\ a.s < b.s)

datetime_lt(a, b) == earlier(minutes_between(a, b), a, b)


---------------------------------------------------------------------------
(* data_validation.py: ValidationIssue, ValidationResult                   *)

NoSuggestion == [text |-> "None", arg |-> <<>>, tags |-> {}]

\* ValidationIssue(field, issue, level, suggestion); the issue text is kept as
\* its message without the interpolated values.
ValidationIssue(field, issue, level, suggestion) ==
    [field |-> field, issue |-> issue, level |-> level, suggestion |-> suggestion]

\* What one validation step appended to result, and the exception that left it.
Findings(errors, warnings, suggestions, raised) ==
    [errors |-> errors, warnings |-> warnings, suggestions |-> suggestions,
     raised |-> raised]

NoFindings == Findings(<<>>, <<>>, <<>>, "")
OneError(issue) == Findings(<<issue>>, <<>>, <<>>, "")
OneWarning(issue) == Findings(<<>>, <<issue>>, <<>>, "")
OneSuggestion(issue) == Findings(<<>>, <<>>, <<issue>>, "")

\* Statement sequencing: g runs only if f returned.
Then(f, g) ==
    IF f.raised # "" THEN f
    ELSE Findings(f.errors \o g.errors, f.warnings \o g.warnings,
                  f.suggestions \o g.suggestions, g.raised)

\* ValidationResult has exactly these attributes (the fields of the @dataclass,
\* one property, one method).
ValidationResultAttrs ==
    {"is_valid", "errors", "warnings", "suggestions", "all_issues", "to_dict"}

---------------------------------------------------------------------------
(* data_validation.py: DataValidator helpers                               *)

LowerChars == {"a","b","c","d","e","f","g","h","i","j","k","l","m",
               "n","o","p","q","r","s","t","u","v","w","x","y","z"}
UpperChars == {"A","B","C","D","E","F","G","H","I","J","K","L","M",
               "N","O","P","Q","R","S","T","U","V","W","X","Y","Z"}
DigitChars == {"0","1","2","3","4","5","6","7","8","9"}
IdChars == LowerChars \cup DigitChars \cup {"-"}

ToLowerMap == [c \in UpperChars |->
    CASE c = "A" -> "a" [] c = "B" -> "b" [] c = "C" -> "c" [] c = "D" -> "d"
      [] c = "E" -> "e" [] c = "F" -> "f" [] c = "G" -> "g" [] c = "H" -> "h"
      [] c = "I" -> "i" [] c = "J" -> "j" [] c = "K" -> "k" [] c = "L" -> "l"
      [] c = "M" -> "m" [] c = "N" -> "n" [] c = "O" -> "o" [] c = "P" -> "p"
      [] c = "Q" -> "q" [] c = "R" -> "r" [] c = "S" -> "s" [] c = "T" -> "t"
      [] c = "U" -> "u" [] c = "V" -> "v" [] c = "W" -> "w" [] c = "X" -> "x"
      [] c = "Y" -> "y" [] c = "Z" -> "z"]

\* str.lower(): characters without a lower-case form (digits, CJK, ...) stay.
lower(s) == [i \in 1..Len(s) |-> IF s[i] \in UpperChars THEN ToLowerMap[s[i]] ELSE s[i]]

\* re.match(r'^[a-z0-9\-]+$', s): "$" also matches before one final "\n".
match_id_format(s) ==
    LET core == IF s # <<>> /\ s[Len(s)] = "\n" THEN SubSeq(s, 1, Len(s) - 1) ELSE s
    IN  core # <<>> /\ \A i \in 1..Len(core) : core[i] \in IdChars

\* The characters of s at the positions in keep, in order
Keep(s, keep) ==
    [k \in 1..Cardinality(keep) |->
        s[CHOOSE i \in keep : Cardinality({j \in keep : j < i}) = k - 1]]

\* re.sub(r'-+', '-', s)
collapse_hyphens(s) ==
    Keep(s, {i \in 1..Len(s) : ~(s[i] = "-" /\ i > 1 /\ s[i - 1] = "-")})

\* str.lstrip('-'): a strip that leaves the trailing hyphens
lstrip_hyphens(s) ==
    Keep(s, {i \in 1..Len(s) : \E a \in 1..i : s[a] # "-"})

\* str.strip('-')
strip_hyphens(s) ==
    LET other == {i \in 1..Len(s) : s[i] # "-"}
    IN  Keep(s, {i \in 1..Len(s) : \E a, b \in other : a <= i /\ i <= b})

\* DataValidator._normalize_id
\* re.sub(r'[^a-z0-9\-]', '-', s)
hyphenate(lo) == [i \in 1..Len(lo) |-> IF lo[i] \in IdChars THEN lo[i] ELSE "-"]

DataValidator_normalize_id(id_str) ==
    strip_hyphens(collapse_hyphens(hyphenate(lower(id_str))))

\* re.match(r'^https?://[^\s]+', link)
HasPrefix(s, p) == Len(s) >= Len(p) /\ SubSeq(s, 1, Len(p)) = p

match_url_pattern(link) ==
    LET http == <<"h","t","t","p",":","/","/">>
        https == <<"h","t","t","p","s",":","/","/">>
    IN  \/ HasPrefix(link, http) /\ Len(link) > 7 /\ link[8] \notin Whitespace
        \/ HasPrefix(link, https) /\ Len(link) > 8 /\ link[9] \notin Whitespace

\* difflib.SequenceMatcher(None, a, b): the number of matched characters.
\* find_longest_match takes the longest common block, of those the one that
\* starts earliest in a, and of those the one that starts earliest in b; the
\* pieces to its left and to its right are matched recursively.
RECURSIVE CommonPrefixLen(_, _)
CommonPrefixLen(a, b) ==
    IF a = <<>> \/ b = <<>> \/ Head(a) # Head(b) THEN 0
    ELSE 1 + CommonPrefixLen(Tail(a), Tail(b))

BlockLen(a, i, b, j) == CommonPrefixLen(SubSeq(a, i, Len(a)), SubSeq(b, j, Len(b)))

\* Block p of length kp is preferred to block q of length kq
preferred(p, kp, q, kq) ==
    \/ kp > kq
    \/ kp = kq /\ p[1] < q[1]
    \/ kp = kq /\ p[1] = q[1] /\ p[2] <= q[2]

longest_block(a, b, cands) ==
    CHOOSE p \in cands :
        \A q \in cands :
            preferred(p, BlockLen(a, p[1], b, p[2]), q, BlockLen(a, q[1], b, q[2]))

Match(a, b, best) == [i |-> best[1], j |-> best[2], k |-> BlockLen(a, best[1], b, best[2])]

find_longest_match(a, b) ==
    Match(a, b, longest_block(a, b, {<<i, j>> : i \in 1..Len(a), j \in 1..Len(b)}))

RECURSIVE matching_size(_, _)
matching_around(a, b, m) ==
    IF m.k = 0 THEN 0
    ELSE m.k + matching_size(SubSeq(a, 1, m.i - 1), SubSeq(b, 1, m.j - 1))
             + matching_size(SubSeq(a, m.i + m.k, Len(a)), SubSeq(b, m.j + m.k, Len(b)))

matching_size(a, b) ==
    IF a = <<>> \/ b = <<>> THEN 0
    ELSE matching_around(a, b, find_longest_match(a, b))

\* SequenceMatcher.ratio() >= 0.6, i.e. 2.0 * M / T >= 0.6 (1.0 when T = 0)
ratio_at_least_threshold(a, b) ==
    Len(a) + Len(b) = 0 \/ 10 * matching_size(a, b) >= 3 * (Len(a) + Len(b))

\* DataValidator._find_similar_tags (the list's order is the set's iteration
\* order; the model keeps the set)
DataValidator_find_similar_tags(self, tag) ==
    {e \in self.existing_tags : ratio_at_least_threshold(tag, e) /\ tag # e}

\* DataValidator._is_valid_iso8601
DataValidator_is_valid_iso8601(date_str) == fromisoformat(replace_Z(date_str)).ok


---------------------------------------------------------------------------
(* data_validation.py: DataValidator                                       *)

\* f'events[{event_idx}]' ; event_idx is enumerate's 0-based index
EventField(event_idx) == "events[" \o ToString(event_idx) \o "]"
TimelineField(event_idx, timeline_idx) ==
    EventField(event_idx) \o ".timeline[" \o ToString(timeline_idx) \o "]"

\* DataValidator._load_existing_data: one list per key of DATA_FILE_MAP; a file
\* that is missing, empty or unreadable gives [].
DataValidator_load_existing_data(files) ==
    [c \in Range(DATA_FILE_MAP) |->
        IF files[c].status = "ok" THEN files[c].content ELSE <<>>]

\* DataValidator._extract_all_ids
DataValidator_extract_all_ids(existing_data) ==
    UNION { UNION { {e.id : e \in {x \in Range(a.events) : x.has_id}}
                    : a \in Range(existing_data[c]) }
            : c \in DOMAIN existing_data }

\* DataValidator._extract_all_tags
DataValidator_extract_all_tags(existing_data) ==
    UNION { UNION { Range(a.tags) : a \in Range(existing_data[c]) }
            : c \in DOMAIN existing_data }

\* DataValidator.__init__
DataValidator_of(data) ==
    [constructed |-> TRUE,
     existing_data |-> data,
     existing_ids |-> DataValidator_extract_all_ids(data),
     existing_tags |-> DataValidator_extract_all_tags(data)]

DataValidator_init(files) == DataValidator_of(DataValidator_load_existing_data(files))

\* A basic-info check that also warns of a description of exactly the
\* maximal length
validate_basic_info_length_inclusive(a) ==
    Then(IF a.title = <<>> \/ Len(strip(a.title)) = 0
         THEN OneError(ValidationIssue("title", "title empty", "error", NoSuggestion))
         ELSE NoFindings,
    Then(IF a.description = <<>> \/ Len(strip(a.description)) = 0
         THEN OneWarning(ValidationIssue("description", "description missing", "warning",
                  [text |-> "add a one-sentence description", arg |-> <<>>, tags |-> {}]))
         ELSE IF Len(a.description) >= DESCRIPTION_MAX_LENGTH
         THEN OneWarning(ValidationIssue("description", "description too long", "warning",
                  [text |-> "shorten the description", arg |-> <<>>, tags |-> {}]))
         ELSE NoFindings,
         IF a.category = ""
         THEN OneError(ValidationIssue("category", "category empty", "error", NoSuggestion))
         ELSE NoFindings))

\* DataValidator._validate_basic_info
DataValidator_validate_basic_info(a) ==
    Then(\* title
         IF a.title = <<>> \/ Len(strip(a.title)) = 0
         THEN OneError(ValidationIssue("title", "title empty", "error", NoSuggestion))
         ELSE NoFindings,
    Then(\* description
         IF a.description = <<>> \/ Len(strip(a.description)) = 0
         THEN OneWarning(ValidationIssue("description", "description missing", "warning",
                  [text |-> "add a one-sentence description", arg |-> <<>>, tags |-> {}]))
         ELSE IF Len(a.description) > DESCRIPTION_MAX_LENGTH
         THEN OneWarning(ValidationIssue("description", "description too long", "warning",
                  [text |-> "shorten the description", arg |-> <<>>, tags |-> {}]))
         ELSE NoFindings,
         \* category
         IF a.category = ""
         THEN OneError(ValidationIssue("category", "category empty", "error", NoSuggestion))
         ELSE NoFindings))

\* An id check that looks at the format only
validate_id_format_only(self, id_str, event_idx) ==
    IF ~match_id_format(id_str)
    THEN OneError(ValidationIssue(EventField(event_idx) \o ".id", "id format", "error",
             [text |-> "suggested id", arg |-> DataValidator_normalize_id(id_str),
              tags |-> {}]))
    ELSE NoFindings

\* DataValidator._validate_id
DataValidator_validate_id(self, id_str, event_idx) ==
    LET field == EventField(event_idx) \o ".id"
    IN  IF ~match_id_format(id_str)
        THEN OneError(ValidationIssue(field, "id format", "error",
                 [text |-> "suggested id", arg |-> DataValidator_normalize_id(id_str),
                  tags |-> {}]))
        ELSE IF id_str \in self.existing_ids
        THEN OneError(ValidationIssue(field, "id exists", "error",
                 [text |-> "change the id or check for a duplicate", arg |-> <<>>,
                  tags |-> {}]))
        ELSE NoFindings

\* An accessibility check that accepts the status 400
check_link_accessibility_above_400(link, event_idx, head) ==
    IF head.raised
    THEN OneSuggestion(ValidationIssue(EventField(event_idx) \o ".link",
                                       "link not checked", "info", NoSuggestion))
    ELSE IF head.status_code > 400
    THEN OneWarning(ValidationIssue(EventField(event_idx) \o ".link",
                                    "link not reachable", "warning", NoSuggestion))
    ELSE NoFindings

\* DataValidator._check_link_accessibility; head is what requests.head did:
\* [raised, status_code]
DataValidator_check_link_accessibility(link, event_idx, head) ==
    LET field == EventField(event_idx) \o ".link"
    IN  IF head.raised
        THEN OneSuggestion(ValidationIssue(field, "link not checked", "info", NoSuggestion))
        ELSE IF head.status_code >= 400
        THEN OneWarning(ValidationIssue(field, "link not reachable", "warning", NoSuggestion))
        ELSE NoFindings

\* DataValidator._validate_link
DataValidator_validate_link(link, event_idx, cfg, head) ==
    LET field == EventField(event_idx) \o ".link"
    IN  IF ~match_url_pattern(link)
        THEN OneError(ValidationIssue(field, "link format", "error", NoSuggestion))
        ELSE IF cfg.VALIDATE_LINKS
        THEN DataValidator_check_link_accessibility(link, event_idx, head)
        ELSE NoFindings

\* A time zone check that reports an unlisted zone without a suggestion
validate_timezone_without_suggestion(tz, event_idx) ==
    IF tz \notin IANA_TIMEZONES /\ tz # "UTC"
    THEN OneError(ValidationIssue(EventField(event_idx) \o ".timezone",
                                  "timezone invalid", "error", NoSuggestion))
    ELSE NoFindings

\* DataValidator._validate_timezone
DataValidator_validate_timezone(tz, event_idx) ==
    LET field == EventField(event_idx) \o ".timezone"
    IN  IF tz \notin IANA_TIMEZONES /\ tz # "UTC"
        THEN OneError(ValidationIssue(field, "timezone invalid", "error",
                 [text |-> "use a standard IANA timezone name", arg |-> <<>>, tags |-> {}]))
        ELSE NoFindings

\* A comparison that also warns of a deadline equal to the one before
compare_deadlines_not_later(curr, prev, field) ==
    IF ~curr.ok \/ ~prev.ok THEN NoFindings
    ELSE IF curr.aware # prev.aware
    THEN Findings(<<>>, <<>>, <<>>, "TypeError")
    ELSE IF ~datetime_lt(prev.dt, curr.dt)
    THEN OneWarning(ValidationIssue(field \o ".deadline", "timeline order",
                                    "warning", NoSuggestion))
    ELSE NoFindings

\* The comparison of one entry with previous_deadline inside the try block of
\* _validate_timeline: ValueError is caught, any other exception leaves.
\* Comparing a naive with an aware datetime raises TypeError.
compare_deadlines(curr, prev, field) ==
    IF ~curr.ok \/ ~prev.ok THEN NoFindings
    ELSE IF curr.aware # prev.aware
    THEN Findings(<<>>, <<>>, <<>>, "TypeError")
    ELSE IF datetime_lt(curr.dt, prev.dt)
    THEN OneWarning(ValidationIssue(field \o ".deadline", "timeline order",
                                    "warning", NoSuggestion))
    ELSE NoFindings

timeline_order_check(deadline, previous_deadline, field) ==
    IF previous_deadline = <<>> THEN NoFindings
    ELSE compare_deadlines(fromisoformat(replace_Z(deadline)),
                           fromisoformat(replace_Z(previous_deadline[1])), field)

timeline_comment_check(comment, field) ==
    IF comment = <<>> \/ Len(strip(comment)) = 0
    THEN OneWarning(ValidationIssue(field \o ".comment", "comment empty", "warning",
                                    NoSuggestion))
    ELSE NoFindings

\* The loop of DataValidator._validate_timeline from entry j on (1-based)
RECURSIVE timeline_loop(_, _, _, _)
timeline_item(timeline, j, previous_deadline, event_idx, item, field) ==
    IF ~DataValidator_is_valid_iso8601(item.deadline)
    THEN Then(OneError(ValidationIssue(field \o ".deadline", "deadline format", "error",
                 [text |-> "use ISO 8601", arg |-> <<>>, tags |-> {}])),
              timeline_loop(timeline, j + 1, previous_deadline, event_idx))
    ELSE Then(timeline_order_check(item.deadline, previous_deadline, field),
         Then(timeline_comment_check(item.comment, field),
              timeline_loop(timeline, j + 1, <<item.deadline>>, event_idx)))

timeline_loop(timeline, j, previous_deadline, event_idx) ==
    IF j > Len(timeline) THEN NoFindings
    ELSE timeline_item(timeline, j, previous_deadline, event_idx,
                       timeline[j], TimelineField(event_idx, j - 1))

\* DataValidator._validate_timeline
DataValidator_validate_timeline(timeline, event_idx) ==
    timeline_loop(timeline, 1, <<>>, event_idx)

\* An event check that accepts the year 1900
validate_event_year_inclusive(self, event, event_idx, cfg, head) ==
    Then(\* year
         IF event.year < 1900 \/ event.year > 2100
         THEN OneError(ValidationIssue(EventField(event_idx) \o ".year", "year", "error",
                                       NoSuggestion))
         ELSE NoFindings,
    Then(\* id
         IF event.id = <<>>
         THEN OneError(ValidationIssue(EventField(event_idx) \o ".id", "id empty", "error",
                                       NoSuggestion))
         ELSE DataValidator_validate_id(self, event.id, event_idx),
    Then(\* link
         IF event.link = <<>>
         THEN OneWarning(ValidationIssue(EventField(event_idx) \o ".link", "link missing",
                                         "warning", NoSuggestion))
         ELSE DataValidator_validate_link(event.link, event_idx, cfg, head),
    Then(\* timezone
         IF event.timezone = ""
         THEN OneError(ValidationIssue(EventField(event_idx) \o ".timezone",
                                       "timezone empty", "error", NoSuggestion))
         ELSE DataValidator_validate_timezone(event.timezone, event_idx),
    Then(\* timeline
         IF event.timeline = <<>>
         THEN OneWarning(ValidationIssue(EventField(event_idx) \o ".timeline",
                                         "timeline missing", "warning", NoSuggestion))
         ELSE DataValidator_validate_timeline(event.timeline, event_idx),
    Then(\* place
         IF event.place = <<>>
         THEN OneWarning(ValidationIssue(EventField(event_idx) \o ".place",
                                         "place missing", "warning", NoSuggestion))
         ELSE NoFindings,
         \* date
         IF event.date = <<>>
         THEN OneWarning(ValidationIssue(EventField(event_idx) \o ".date", "date missing",
                                         "warning", NoSuggestion))
         ELSE NoFindings))))))

\* DataValidator._validate_event
DataValidator_validate_event(self, event, event_idx, cfg, head) ==
    Then(\* year
         IF event.year <= 1900 \/ event.year > 2100
         THEN OneError(ValidationIssue(EventField(event_idx) \o ".year", "year", "error",
                                       NoSuggestion))
         ELSE NoFindings,
    Then(\* id
         IF event.id = <<>>
         THEN OneError(ValidationIssue(EventField(event_idx) \o ".id", "id empty", "error",
                                       NoSuggestion))
         ELSE DataValidator_validate_id(self, event.id, event_idx),
    Then(\* link
         IF event.link = <<>>
         THEN OneWarning(ValidationIssue(EventField(event_idx) \o ".link", "link missing",
                                         "warning", NoSuggestion))
         ELSE DataValidator_validate_link(event.link, event_idx, cfg, head),
    Then(\* timezone
         IF event.timezone = ""
         THEN OneError(ValidationIssue(EventField(event_idx) \o ".timezone",
                                       "timezone empty", "error", NoSuggestion))
         ELSE DataValidator_validate_timezone(event.timezone, event_idx),
    Then(\* timeline
         IF event.timeline = <<>>
         THEN OneWarning(ValidationIssue(EventField(event_idx) \o ".timeline",
                                         "timeline missing", "warning", NoSuggestion))
         ELSE DataValidator_validate_timeline(event.timeline, event_idx),
    Then(\* place
         IF event.place = <<>>
         THEN OneWarning(ValidationIssue(EventField(event_idx) \o ".place",
                                         "place missing", "warning", NoSuggestion))
         ELSE NoFindings,
         \* date
         IF event.date = <<>>
         THEN OneWarning(ValidationIssue(EventField(event_idx) \o ".date", "date missing",
                                         "warning", NoSuggestion))
         ELSE NoFindings))))))

\* for event_idx, event in enumerate(activity.events): self._validate_event(...)
RECURSIVE events_loop(_, _, _, _, _)
events_loop(self, events, i, cfg, head) ==
    IF i > Len(events) THEN NoFindings
    ELSE Then(DataValidator_validate_event(self, events[i], i - 1, cfg, head),
              events_loop(self, events, i + 1, cfg, head))

\* The loop of DataValidator._validate_tags from tag k on (1-based)
RECURSIVE tags_loop(_, _, _)
similar_tag_suggestion(self, tag, k, similar_tags) ==
    IF similar_tags # {} /\ tag \notin self.existing_tags
    THEN OneSuggestion(ValidationIssue(
             "tags[" \o ToString(k - 1) \o "]", "tag similar", "info",
             [text |-> "use an existing tag", arg |-> <<>>, tags |-> similar_tags]))
    ELSE NoFindings

tags_loop(self, tags, k) ==
    IF k > Len(tags) THEN NoFindings
    ELSE Then(similar_tag_suggestion(self, tags[k], k,
                                     DataValidator_find_similar_tags(self, tags[k])),
              tags_loop(self, tags, k + 1))

\* DataValidator._validate_tags
DataValidator_validate_tags(self, a) ==
    IF a.tags = <<>>
    THEN OneSuggestion(ValidationIssue("tags", "no tags", "info",
             [text |-> "add 3-5 tags", arg |-> <<>>, tags |-> {}]))
    ELSE tags_loop(self, a.tags, 1)

\* DataValidator._validate_overall
DataValidator_validate_overall(a) ==
    IF a.events = <<>>
    THEN OneError(ValidationIssue("events", "no events", "error", NoSuggestion))
    ELSE NoFindings

\* A validity that warnings would also deny
is_valid_without_warnings(result) ==
    Len(result.errors) = 0 /\ Len(result.warnings) = 0

\* result.is_valid = len(result.errors) == 0
is_valid_update(result) == Len(result.errors) = 0

\* DataValidator.validate: the ValidationResult it returns, or the exception
\* that leaves it (raised # "", no result).
ValidationResult(f) ==
    IF f.raised # ""
    THEN [raised |-> f.raised, is_valid |-> FALSE,
          errors |-> <<>>, warnings |-> <<>>, suggestions |-> <<>>]
    ELSE [raised |-> "", is_valid |-> is_valid_update(f),
          errors |-> f.errors, warnings |-> f.warnings,
          suggestions |-> f.suggestions]

DataValidator_validate(self, a, cfg, head) ==
    ValidationResult(Then(DataValidator_validate_basic_info(a),
                     Then(events_loop(self, a.events, 1, cfg, head),
                     Then(DataValidator_validate_tags(self, a),
                          DataValidator_validate_overall(a)))))


---------------------------------------------------------------------------
(* The inputs of DataValidator: corpus files and activities                *)

MaxTimeline == 3

\* The activities that the three data files may hold (tags and event ids are
\* all that the validator reads from them).
CorpusEvent(id) == [has_id |-> TRUE, id |-> id]
CorpusEventNoId == [has_id |-> FALSE, id |-> <<>>]

CorpusFile(status, content) == [status |-> status, content |-> content]

CorpusFiles ==
    { [c \in Range(DATA_FILE_MAP) |->
          CASE c = "activity" -> fa [] c = "competition" -> fc [] OTHER -> fo]
      : fa \in { CorpusFile("missing", <<>>),
                 CorpusFile("ok", << [tags |-> << <<"a","i">>, <<"w","e","b">> >>,
                                      events |-> << CorpusEvent(<<"a">>),
                                                    CorpusEvent(<<"b","-","1">>) >>] >>) },
        fc \in { CorpusFile("ok", <<>>),
                 CorpusFile("ok", << [tags |-> <<>>,
                                      events |-> << CorpusEventNoId,
                                                    CorpusEvent(<<"A">>) >>],
                                     [tags |-> << <<"a","i">> >>,
                                      events |-> << CorpusEvent(<<"c","2">>) >>] >>) },
        fo \in { CorpusFile("missing", <<>>),
                 CorpusFile("unreadable", << [tags |-> << <<"x">> >>,
                                              events |-> << CorpusEvent(<<"z">>) >>] >>) } }

Settings == [VALIDATE_LINKS : BOOLEAN]

\* What requests.head did
HeadOutcomes == { [raised |-> TRUE, status_code |-> 0],
                  [raised |-> FALSE, status_code |-> 200],
                  [raised |-> FALSE, status_code |-> 404] }
\* The same, with the status codes on both sides of 400
BoundaryHeadOutcomes ==
    HeadOutcomes \cup { [raised |-> FALSE, status_code |-> 399],
                        [raised |-> FALSE, status_code |-> 400] }

TimelineEvent(deadline, comment) == [deadline |-> deadline, comment |-> comment]

ActivityEvent(year, id, link, timeline, timezone, date, place) ==
    [year |-> year, id |-> id, link |-> link, timeline |-> timeline,
     timezone |-> timezone, date |-> date, place |-> place]

ParsedActivity(title, description, category, tags, events) ==
    [title |-> title, description |-> description, category |-> category,
     tags |-> tags, events |-> events]

\* f"{y}-{m:02d}-{d:02d}" as the record of its groups
DateStr(y, m, d) == [y |-> y, m |-> m, d |-> d]

GoodLink == <<"h","t","t","p","s",":","/","/","x">>
GoodTimeline == << TimelineEvent(Deadline(2025, 6, 4, 9, 0, 0, ""), <<"c">>) >>
GoodEvent == ActivityEvent(2025, <<"n","e","w">>, GoodLink, GoodTimeline,
                           "Asia/Shanghai", <<DateStr(2025, 6, 4)>>, <<"S","H">>)

IdPool == { <<>>, <<"a">>, <<"b","-","1">>, <<"c","2">>, <<"z">>, <<"n","e","w">>,
            <<"A">>, <<"a"," ","b">>, <<"a","\n">>, <<"-">> }

DeadlinePool ==
    { Deadline(2025, 6, 4, 9, 0, 0, ""),          \* naive
      Deadline(2025, 6, 4, 18, 0, 0, ""),         \* naive, later
      Deadline(2025, 6, 4, 12, 0, 0, "+08:00"),   \* aware
      Deadline(2025, 6, 4, 3, 0, 0, "Z"),         \* aware, one hour before the +08:00 one
      Deadline(2025, 2, 30, 9, 0, 0, "") }        \* not a date

\* Activities that differ in the activity-level fields
BasicActivities ==
    { ParsedActivity(t, d, c, g, <<GoodEvent>>) :
        t \in { <<>>, <<" ">>, <<"T">> },
        d \in { <<>>, <<" ", "\n">>, <<"d">>, Rep("x", DESCRIPTION_MAX_LENGTH),
                Rep("x", DESCRIPTION_MAX_LENGTH + 1) },
        c \in ActivityCategory,
        g \in { <<>>, << <<"a","i">> >>, << <<"a","l">>, <<"w","e","b","s">> >>,
                << <<"q">> >> } }

\* Activities that differ in the fields of their only event
EventActivities ==
    { ParsedActivity(<<"T">>, <<"d">>, "activity", << <<"a","i">> >>,
                     << ActivityEvent(y, i, l, GoodTimeline, "Asia/Shanghai",
                                      <<DateStr(2025, 6, 4)>>, <<"S","H">>) >>) :
        y \in { 1900, 1901, 2100, 2101 },
        i \in IdPool,
        l \in { <<>>, GoodLink, <<"h","t","t","p",":","/","/"," ">>, <<"x">> } }
    \cup
    { ParsedActivity(<<"T">>, <<"d">>, "activity", << <<"a","i">> >>,
                     << ActivityEvent(2025, <<"n","e","w">>, GoodLink, tl, tz, dt, pl) >>) :
        tl \in { <<>>, GoodTimeline },
        tz \in { "", "UTC", "Asia/Beijing", "Mars/Base" },
        dt \in { <<>>, <<DateStr(2025, 6, 4)>> },
        pl \in { <<>>, <<"S","H">> } }

\* Activities that differ in the timeline of their only event
TimelineItems ==
    { TimelineEvent(dl, <<"c">>) : dl \in DeadlinePool \cup {NotIso} }
    \cup { TimelineEvent(Deadline(2025, 6, 4, 18, 0, 0, ""), <<>>),
           TimelineEvent(NotIso, <<>>) }

TimelineActivities ==
    { ParsedActivity(<<"T">>, <<"d">>, "activity", <<>>,
                     << [GoodEvent EXCEPT !.timeline = tl] >>) :
        tl \in (SeqsUpTo(TimelineItems, MaxTimeline)
                  \cup { << TimelineEvent(Deadline(2025, 6, 4, 9, 0, 0, ""), <<" ">>) >> }) }

\* Activities with no event, or with two events
EventsActivities ==
    { ParsedActivity(<<"T">>, <<"d">>, "activity", <<>>, ev) :
        ev \in {<<>>} \cup
               { << [GoodEvent EXCEPT !.id = i], [GoodEvent EXCEPT !.id = j] >> :
                   i \in IdPool, j \in IdPool } }

\* Activities of one or two events that differ in the events' time zones
TimezonePool == { "", "UTC", "Asia/Tokyo", "Mars/Phobos" }

TimezoneActivities ==
    { ParsedActivity(<<"T">>, <<"d">>, "activity", <<>>, ev) :
        ev \in { << [GoodEvent EXCEPT !.timezone = tz] >> : tz \in TimezonePool }
               \cup { << [GoodEvent EXCEPT !.timezone = t1],
                         [GoodEvent EXCEPT !.timezone = t2] >> :
                        t1 \in TimezonePool, t2 \in TimezonePool } }

\* Activities that differ in the category: the members of ActivityCategory,
\* and the strings that the field's type Union[ActivityCategory, str] admits
CategoryPool == ActivityCategory \cup { "", "workshop", "Conference" }

CategoryActivities ==
    { ParsedActivity(t, <<"d">>, c, <<>>, <<GoodEvent>>) :
        t \in { <<>>, <<"T">> }, c \in CategoryPool }

\* Activities of two events that differ in the events' years
YearPool == { 0, 1900, 1901, 2100, 2101 }

YearActivities ==
    { ParsedActivity(<<"T">>, <<"d">>, "activity", <<>>,
                     << [GoodEvent EXCEPT !.year = y1], [GoodEvent EXCEPT !.year = y2] >>) :
        y1 \in YearPool, y2 \in YearPool }

\* Activities of two events that differ in the events' links
LinkPool == { <<>>, GoodLink, <<"h","t","t","p",":","/","/"," ">>, <<"x">>,
              <<"h","t","t","p",":","/","/">> }

LinkActivities ==
    { ParsedActivity(<<"T">>, <<"d">>, "activity", <<>>,
                     << [GoodEvent EXCEPT !.link = l1], [GoodEvent EXCEPT !.link = l2] >>) :
        l1 \in LinkPool, l2 \in LinkPool }

Activities == BasicActivities \cup EventActivities \cup TimelineActivities
                 \cup EventsActivities \cup TimezoneActivities
                 \cup CategoryActivities \cup YearActivities \cup LinkActivities

---------------------------------------------------------------------------
(* The validation run: a constructed DataValidator validates one activity  *)

NoActivity == ParsedActivity(<<>>, <<>>, "activity", <<>>, <<>>)

NoValidation == [called |-> FALSE, raised |-> "", is_valid |-> FALSE,
                 errors |-> <<>>, warnings |-> <<>>, suggestions |-> <<>>]

ValidationOutcome(r) ==
    [called |-> TRUE, raised |-> r.raised, is_valid |-> r.is_valid,
     errors |-> r.errors, warnings |-> r.warnings, suggestions |-> r.suggestions]

\* The same, with what requests.head does in the run
ValidationRun(r, head) ==
    [called |-> TRUE, raised |-> r.raised, is_valid |-> r.is_valid,
     errors |-> r.errors, warnings |-> r.warnings, suggestions |-> r.suggestions,
     head |-> head]

\* The values of the variables that a specification does not use
NoExtracted == [called |-> "", date |-> <<>>, timeline |-> <<>>, place |-> <<>>]
NoParser == [kind |-> "", github_parser |-> FALSE, llm |-> FALSE]
NoParsed == [called |-> FALSE, raised |-> "", activity |-> NoActivity]
NoRun == [entry |-> ""]
NoGenerated == [by |-> "", id |-> <<>>]

InitValidate ==
    /\ validator \in { DataValidator_init(files) : files \in CorpusFiles }
    /\ settings \in Settings
    /\ activity = NoActivity
    /\ validation = NoValidation
    /\ source_text = <<>>
    /\ extracted = NoExtracted
    /\ parser = NoParser
    /\ parsed = NoParsed
    /\ run = NoRun
    /\ generated = NoGenerated

\* validator.validate(a)
Validate ==
    /\ ~validation.called
    /\ \E a \in Activities, head \in BoundaryHeadOutcomes :
          /\ activity' = a
          /\ validation' = ValidationRun(
                               DataValidator_validate(validator, a, settings, head), head)
    /\ UNCHANGED <<validator, settings, parse_vars, run, generated>>

NextValidate == Validate

SpecValidate == InitValidate /\ [][NextValidate]_vars


---------------------------------------------------------------------------
(* Properties of DataValidator.validate                                    *)

Returned == validation.called /\ validation.raised = ""

\* C1: the result that validate returns has is_valid = TRUE exactly when its
\* errors list is empty, whatever its warnings and suggestions are.
C1_IsValidIffNoErrors ==
    Returned => (validation.is_valid <=> validation.errors = <<>>)

\* C1 happens: a valid result that carries warnings and suggestions
C1_ValidWithWarnings ==
    /\ Returned
    /\ validation.is_valid
    /\ validation.warnings # <<>>
    /\ validation.suggestions # <<>>

\* The errors of the result whose field is events[i].id (i is 0-based)
IdErrors(i) ==
    { k \in 1..Len(validation.errors) :
        validation.errors[k].field = EventField(i) \o ".id" }

FullMatchId(id) == id # <<>> /\ \A k \in 1..Len(id) : id[k] \in IdChars

\* C2: an event id that is in the corpus id set (of all categories) gets
\* exactly one error on events[i].id; every event id gets at most one; an id
\* that is non-empty, matches [a-z0-9-]+ and is not in the corpus gets none.
C2_IdErrors ==
    Returned =>
        \A n \in 1..Len(activity.events) :
            LET id == activity.events[n].id
                errs == Cardinality(IdErrors(n - 1))
            IN  /\ errs <= 1
                /\ id \in validator.existing_ids => errs = 1
                /\ (FullMatchId(id) /\ id \notin validator.existing_ids) => errs = 0

\* C2 happens: the second event's id is well-formed and in a corpus file other
\* than the first, and the result has its error
C2_DuplicateIdReported ==
    /\ Returned
    /\ Len(activity.events) = 2
    /\ activity.events[2].id = <<"c","2">>
    /\ activity.events[2].id \in validator.existing_ids
    /\ Cardinality(IdErrors(1)) = 1
    /\ Cardinality(IdErrors(0)) = 0

AllDeadlinesIso ==
    \A n \in 1..Len(activity.events) :
        \A j \in 1..Len(activity.events[n].timeline) :
            DataValidator_is_valid_iso8601(activity.events[n].timeline[j].deadline)

\* C3: validate returns a result, and no exception leaves it, for every
\* activity whose deadlines are ISO-8601 strings, naive or zone-qualified.
C3_ValidateNeverAborts ==
    (validation.called /\ AllDeadlinesIso) => validation.raised = ""

\* C3's case: a naive deadline directly after a zone-qualified one, and
\* validate left by TypeError
C3_NaiveAfterAwareAborts ==
    /\ validation.called
    /\ AllDeadlinesIso
    /\ Len(activity.events) = 1
    /\ Len(activity.events[1].timeline) = 2
    /\ activity.events[1].timeline[1].deadline.tz = "+08:00"
    /\ activity.events[1].timeline[2].deadline.tz = ""
    /\ validation.raised = "TypeError"

\* C3, as the code behaves: the only exception that leaves validate is the
\* TypeError of comparing a naive with a zone-qualified deadline, and it
\* leaves exactly when two successive valid deadlines of a timeline differ in
\* having a zone.
RECURSIVE ValidDeadlines(_)
ValidDeadlines(timeline) ==
    IF timeline = <<>> THEN <<>>
    ELSE (IF DataValidator_is_valid_iso8601(Head(timeline).deadline)
          THEN <<Head(timeline).deadline>> ELSE <<>>) \o ValidDeadlines(Tail(timeline))

MixedAwareness(timeline) ==
    LET v == ValidDeadlines(timeline)
    IN  \E j \in 1..(Len(v) - 1) : (v[j].tz = "") # (v[j + 1].tz = "")

C3_AbortsExactlyOnMixedAwareness ==
    validation.called =>
        /\ validation.raised \in {"", "TypeError"}
        /\ validation.raised = "TypeError" <=>
              \E n \in 1..Len(activity.events) :
                  MixedAwareness(activity.events[n].timeline)

\* The findings of the given list whose field is the given one
OnField(issues, field) == { k \in 1..Len(issues) : issues[k].field = field }

TimezoneField(n) == EventField(n - 1) \o ".timezone"

\* C11: for every event, an empty time zone, or one that is neither in
\* IANA_TIMEZONES nor "UTC", gets exactly one error on events[i].timezone,
\* the error of the unlisted zone carrying the suggestion to use a standard
\* zone name; a zone of the list gets no error; no warning or suggestion is
\* ever on that field.
C11_TimezoneFindings ==
    Returned =>
        \A n \in 1..Len(activity.events) :
            LET tz == activity.events[n].timezone
                errs == OnField(validation.errors, TimezoneField(n))
            IN  /\ OnField(validation.warnings, TimezoneField(n)) = {}
                /\ OnField(validation.suggestions, TimezoneField(n)) = {}
                /\ tz \in IANA_TIMEZONES => errs = {}
                /\ (tz = "" \/ (tz \notin IANA_TIMEZONES /\ tz # "UTC")) =>
                      /\ Cardinality(errs) = 1
                      /\ \A k \in errs : validation.errors[k].level = "error"
                /\ (tz # "" /\ tz \notin IANA_TIMEZONES /\ tz # "UTC") =>
                      \A k \in errs :
                          validation.errors[k].suggestion.text =
                              "use a standard IANA timezone name"

\* C11 happens: the first event's zone is in the list and the second's is
\* not, and only the second has the error, with the suggestion
C11_UnlistedZoneReported ==
    /\ Returned
    /\ Len(activity.events) = 2
    /\ activity.events[1].timezone = "Asia/Tokyo"
    /\ activity.events[2].timezone = "Mars/Phobos"
    /\ OnField(validation.errors, TimezoneField(1)) = {}
    /\ Cardinality(OnField(validation.errors, TimezoneField(2))) = 1
    /\ \A k \in OnField(validation.errors, TimezoneField(2)) :
          validation.errors[k].suggestion.text = "use a standard IANA timezone name"

\* str.strip() leaves nothing: every character is white space
Blank(str) == Len(strip(str)) = 0

\* C12: the description never gets an error; it gets exactly one warning on
\* 'description' when it is empty or blank, exactly one when it is longer
\* than DESCRIPTION_MAX_LENGTH, and no finding when it is non-blank and at
\* most DESCRIPTION_MAX_LENGTH long.
C12_DescriptionFindings ==
    Returned =>
        LET warns == OnField(validation.warnings, "description")
            long == Len(activity.description) > DESCRIPTION_MAX_LENGTH
        IN  /\ OnField(validation.errors, "description") = {}
            /\ OnField(validation.suggestions, "description") = {}
            /\ \A k \in warns : validation.warnings[k].level = "warning"
            /\ Blank(activity.description) =>
                  /\ Cardinality(warns) = 1
                  /\ \A k \in warns : validation.warnings[k].issue = "description missing"
            /\ (~Blank(activity.description) /\ long) =>
                  /\ Cardinality(warns) = 1
                  /\ \A k \in warns : validation.warnings[k].issue = "description too long"
            /\ (~Blank(activity.description) /\ ~long) => warns = {}

\* C12 happens: a description one character longer than the maximum has its
\* one warning, and the result is valid
C12_LongDescriptionWarned ==
    /\ Returned
    /\ Len(activity.description) = DESCRIPTION_MAX_LENGTH + 1
    /\ Cardinality(OnField(validation.warnings, "description")) = 1
    /\ validation.is_valid

\* C15: a category that is empty, or is not one of conference, competition,
\* activity, yields an error on field 'category'.
C15_BadCategoryError ==
    (Returned /\ activity.category \notin ActivityCategory) =>
        OnField(validation.errors, "category") # {}

\* C15's case: the category is a string that names no member of
\* ActivityCategory, and the result has no error on 'category' and is valid
C15_UnrecognizedCategoryAccepted ==
    /\ Returned
    /\ activity.category = "workshop"
    /\ OnField(validation.errors, "category") = {}
    /\ validation.is_valid

\* C15, as the code behaves: the result has an error on 'category', and then
\* exactly one, exactly when the category is empty.
C15_CategoryErrorIffEmpty ==
    Returned =>
        /\ Cardinality(OnField(validation.errors, "category")) =
              (IF activity.category = "" THEN 1 ELSE 0)
        /\ OnField(validation.warnings, "category") = {}

YearField(n) == EventField(n - 1) \o ".year"

\* C21: every event gets an error on events[i].year, and then exactly one,
\* exactly when its year is <= 1900 or > 2100: 1900 and 2101 are errors, 1901
\* and 2100 are accepted; the year never gets a warning.
C21_YearErrors ==
    Returned =>
        \A n \in 1..Len(activity.events) :
            /\ Cardinality(OnField(validation.errors, YearField(n))) =
                  (IF activity.events[n].year <= 1900 \/ activity.events[n].year > 2100
                   THEN 1 ELSE 0)
            /\ OnField(validation.warnings, YearField(n)) = {}

\* C21 happens: the first event has the year 1900 and its error, the second
\* the year 2100 and none
C21_BoundaryYears ==
    /\ Returned
    /\ Len(activity.events) = 2
    /\ activity.events[1].year = 1900
    /\ activity.events[2].year = 2100
    /\ Cardinality(OnField(validation.errors, YearField(1))) = 1
    /\ OnField(validation.errors, YearField(2)) = {}

LinkField(n) == EventField(n - 1) \o ".link"

\* The HEAD request for a link is issued: the link is well-formed and link
\* checking is enabled
HeadIssued(link) == link # <<>> /\ match_url_pattern(link) /\ settings.VALIDATE_LINKS

NoMixedAwareness ==
    \A n \in 1..Len(activity.events) : ~MixedAwareness(activity.events[n].timeline)

\* C22: a link gets an error, and then exactly one, exactly when it is
\* non-empty and does not match ^https?://\S+; an empty link gets exactly one
\* warning; what the HEAD request does shows in the result only for a
\* well-formed link with link checking enabled, as one warning for a status
\* >= 400 and one info suggestion for a transport failure, never as an error;
\* and it never makes validate raise.
C22_LinkFindings ==
    /\ (validation.called /\ NoMixedAwareness) => validation.raised = ""
    /\ Returned =>
          \A n \in 1..Len(activity.events) :
              LET link == activity.events[n].link
                  errs == OnField(validation.errors, LinkField(n))
                  warns == OnField(validation.warnings, LinkField(n))
                  infos == OnField(validation.suggestions, LinkField(n))
              IN  /\ Cardinality(errs) =
                        (IF link # <<>> /\ ~match_url_pattern(link) THEN 1 ELSE 0)
                  /\ link = <<>> =>
                        /\ Cardinality(warns) = 1
                        /\ \A k \in warns : validation.warnings[k].issue = "link missing"
                  /\ (link # <<>> /\ ~HeadIssued(link)) => warns = {}
                  /\ ~HeadIssued(link) => infos = {}
                  /\ HeadIssued(link) =>
                        /\ Cardinality(infos) = (IF validation.head.raised THEN 1 ELSE 0)
                        /\ \A k \in infos : validation.suggestions[k].level = "info"
                        /\ Cardinality(warns) =
                              (IF ~validation.head.raised
                                  /\ validation.head.status_code >= 400 THEN 1 ELSE 0)

\* C22 happens: link checking is enabled, the HEAD request fails in
\* transport, the first event's link is empty and the second's well-formed;
\* the first has its warning, the second the info suggestion, and the result
\* is valid
C22_TransportFailureIsInfo ==
    /\ Returned
    /\ settings.VALIDATE_LINKS
    /\ validation.head.raised
    /\ Len(activity.events) = 2
    /\ activity.events[1].link = <<>>
    /\ activity.events[2].link = GoodLink
    /\ Cardinality(OnField(validation.warnings, LinkField(1))) = 1
    /\ OnField(validation.suggestions, LinkField(1)) = {}
    /\ Cardinality(OnField(validation.suggestions, LinkField(2))) = 1
    /\ OnField(validation.warnings, LinkField(2)) = {}
    /\ validation.is_valid

DeadlineField(n, j) == TimelineField(n - 1, j - 1) \o ".deadline"
CommentField(n, j) == TimelineField(n - 1, j - 1) \o ".comment"

Parseable(deadline) == DataValidator_is_valid_iso8601(deadline)

\* The parseable entries of the timeline before entry j
ParseableBefore(timeline, j) == { i \in 1..(j - 1) : Parseable(timeline[i].deadline) }

\* The instant of deadline a is before that of deadline b
Before(a, b) ==
    datetime_lt(fromisoformat(replace_Z(a)).dt, fromisoformat(replace_Z(b)).dt)

\* Entry j is parseable and earlier than the most recent parseable entry
\* before it
OutOfOrder(timeline, j) ==
    /\ Parseable(timeline[j].deadline)
    /\ ParseableBefore(timeline, j) # {}
    /\ Before(timeline[j].deadline,
              timeline[CHOOSE i \in ParseableBefore(timeline, j) :
                         \A k \in ParseableBefore(timeline, j) : k <= i].deadline)

\* C23: a timeline entry whose deadline is not parseable gets exactly one
\* error on its deadline and no ordering warning; a parseable entry gets no
\* error, and an ordering warning, exactly one, exactly when its deadline is
\* earlier than that of the most recent parseable entry before it.
C23_TimelineDeadlineFindings ==
    Returned =>
        \A n \in 1..Len(activity.events) :
            \A j \in 1..Len(activity.events[n].timeline) :
                /\ Cardinality(OnField(validation.errors, DeadlineField(n, j))) =
                      (IF Parseable(activity.events[n].timeline[j].deadline)
                       THEN 0 ELSE 1)
                /\ Cardinality(OnField(validation.warnings, DeadlineField(n, j))) =
                      (IF OutOfOrder(activity.events[n].timeline, j) THEN 1 ELSE 0)

\* C23 happens: a timeline of 18:00, an unparseable deadline and 09:00; the
\* second entry has the error, the third the ordering warning against the
\* first
C23_ComparedAcrossUnparseable ==
    /\ Returned
    /\ Len(activity.events) = 1
    /\ Len(activity.events[1].timeline) = 3
    /\ activity.events[1].timeline[1].deadline = Deadline(2025, 6, 4, 18, 0, 0, "")
    /\ activity.events[1].timeline[2].deadline = NotIso
    /\ activity.events[1].timeline[3].deadline = Deadline(2025, 6, 4, 9, 0, 0, "")
    /\ Cardinality(OnField(validation.errors, DeadlineField(1, 2))) = 1
    /\ OnField(validation.warnings, DeadlineField(1, 2)) = {}
    /\ Cardinality(OnField(validation.warnings, DeadlineField(1, 3))) = 1
    /\ OnField(validation.errors, DeadlineField(1, 3)) = {}

BlankComment(item) == item.comment = <<>> \/ Blank(item.comment)

\* C24: every timeline entry whose comment is empty or blank gets a warning
\* on events[i].timeline[j].comment, whether or not its deadline is
\* parseable.
C24_BlankCommentWarned ==
    Returned =>
        \A n \in 1..Len(activity.events) :
            \A j \in 1..Len(activity.events[n].timeline) :
                BlankComment(activity.events[n].timeline[j]) =>
                    OnField(validation.warnings, CommentField(n, j)) # {}

\* C24's case: the only timeline entry has an unparseable deadline and an
\* empty comment; the result has the error of the deadline and no warning of
\* the comment
C24_CommentOfUnparseableEntryUnchecked ==
    /\ Returned
    /\ Len(activity.events) = 1
    /\ Len(activity.events[1].timeline) = 1
    /\ activity.events[1].timeline[1] = TimelineEvent(NotIso, <<>>)
    /\ Cardinality(OnField(validation.errors, DeadlineField(1, 1))) = 1
    /\ OnField(validation.warnings, CommentField(1, 1)) = {}

\* C24, as the code behaves: an entry gets the warning of its comment, and
\* then exactly one, exactly when the comment is empty or blank and the
\* entry's deadline is parseable.
C24_BlankCommentWarnedIfParseable ==
    Returned =>
        \A n \in 1..Len(activity.events) :
            \A j \in 1..Len(activity.events[n].timeline) :
                Cardinality(OnField(validation.warnings, CommentField(n, j))) =
                    (IF /\ BlankComment(activity.events[n].timeline[j])
                        /\ Parseable(activity.events[n].timeline[j].deadline)
                     THEN 1 ELSE 0)


---------------------------------------------------------------------------
(* DataValidator.validate called again and again on one instance           *)

\* Up to MaxCalls calls of validate are made on the instance
MaxCalls == 3

\* A validator that adds the IDs of the record it validated to existing_ids
validate_remembering_ids(self, a) ==
    [self EXCEPT !.existing_ids = @ \cup { a.events[n].id : n \in 1..Len(a.events) }]

\* The instance after validate(a): validate and the methods it calls read
\* self.existing_ids and self.existing_tags and assign no attribute of self
DataValidator_after_validate(self, a) == self

\* A record without findings, one whose ID the corpus may hold, one with a blank
\* title and a bad year, and one whose timeline makes validate raise
RevalidateActivities ==
    { ParsedActivity(<<"T">>, <<"d">>, "activity", <<>>, <<GoodEvent>>),
      ParsedActivity(<<"T">>, <<"d">>, "activity", << <<"a","l">> >>,
                     <<[GoodEvent EXCEPT !.id = <<"a">>]>>),
      ParsedActivity(<<" ">>, <<"d">>, "activity", <<>>,
                     <<[GoodEvent EXCEPT !.year = 1900]>>),
      ParsedActivity(<<"T">>, <<"d">>, "activity", <<>>,
                     <<[GoodEvent EXCEPT !.timeline =
                          << TimelineEvent(Deadline(2025, 6, 4, 9, 0, 0, ""), <<"c">>),
                             TimelineEvent(Deadline(2025, 6, 4, 12, 0, 0, "+08:00"),
                                           <<"c">>) >>]>>) }

RevalidateHeads == { [raised |-> FALSE, status_code |-> 200],
                     [raised |-> FALSE, status_code |-> 404] }

\* The last result, and the calls made so far: the record passed, what
\* requests.head did, and the result (or the exception)
NoRevalidation ==
    [called |-> FALSE, raised |-> "", is_valid |-> FALSE,
     errors |-> <<>>, warnings |-> <<>>, suggestions |-> <<>>, calls |-> <<>>]

Revalidation(r, head, a, calls) ==
    [called |-> TRUE, raised |-> r.raised, is_valid |-> r.is_valid,
     errors |-> r.errors, warnings |-> r.warnings, suggestions |-> r.suggestions,
     calls |-> Append(calls, [activity |-> a, head |-> head, result |-> r])]

InitRevalidate ==
    /\ validator \in { DataValidator_init(files) : files \in CorpusFiles }
    /\ settings \in Settings
    /\ activity = NoActivity
    /\ validation = NoRevalidation
    /\ source_text = <<>>
    /\ extracted = NoExtracted
    /\ parser = NoParser
    /\ parsed = NoParsed
    /\ run = NoRun
    /\ generated = NoGenerated

\* validator.validate(a), on the instance that earlier calls used
Revalidate ==
    /\ Len(validation.calls) < MaxCalls
    /\ \E a \in RevalidateActivities, head \in RevalidateHeads :
          /\ activity' = a
          /\ validation' = Revalidation(
                               DataValidator_validate(validator, a, settings, head),
                               head, a, validation.calls)
          /\ validator' = DataValidator_after_validate(validator, a)
    /\ UNCHANGED <<settings, parse_vars, run, generated>>

NextRevalidate == Revalidate

SpecRevalidate == InitRevalidate /\ [][NextRevalidate]_vars

\* Calls with the same record and the same answer of the network returned the same
EqualResults ==
    \A i, j \in 1..Len(validation.calls) :
        (/\ validation.calls[i].activity = validation.calls[j].activity
         /\ validation.calls[i].head = validation.calls[j].head)
          => validation.calls[i].result = validation.calls[j].result

---------------------------------------------------------------------------
(* Python's re on character sequences.                                     *)
(* A character is a one-character string; a character outside ASCII is     *)
(* written as its code point, "U+5E74".  A pattern is a sequence of nodes; *)
(* re_match tries the alternatives in the order of Python's backtracking   *)
(* matcher, so the match it returns is the one re returns.                 *)

In(cs) == [k |-> "set", cs |-> cs, neg |-> FALSE]
NotIn(cs) == [k |-> "set", cs |-> cs, neg |-> TRUE]
\* a literal string, as one node
Lit(str) == <<[k |-> "lit", str |-> str]>>
\* set{min,max} of a one-character set; max = -1 is "no upper limit"; lazy is
\* a trailing "?"
Many(set, min, max, lazy) ==
    [k |-> "many", set |-> set, min |-> min, max |-> max, lazy |-> lazy]
\* (?:body)?
Opt(body) == [k |-> "opt", body |-> body]
Alt(alts) == [k |-> "alt", alts |-> alts]
Grp(idx, body) == [k |-> "grp", idx |-> idx, body |-> body]
Ahead(body) == [k |-> "ahead", body |-> body, neg |-> FALSE]
NotAhead(body) == [k |-> "ahead", body |-> body, neg |-> TRUE]
EndAnchor == [k |-> "end"]

MaxGroups == 12
NoCaps == [g \in 1..MaxGroups |-> [from |-> 0, to |-> 0]]
NoMatch == [ok |-> FALSE, start |-> 0, end |-> 0, caps |-> NoCaps]

\* The number of characters from position i on that are in the set, at most max
RunLength(set, s, i, max) ==
    LET limit == IF max = -1 \/ max > Len(s) - i + 1 THEN Len(s) - i + 1 ELSE max
        in(j) == (s[j] \in set.cs) # set.neg
    IN  CHOOSE r \in 0..limit :
            /\ \A j \in i..(i + r - 1) : in(j)
            /\ r = limit \/ ~in(i + r)

\* The match of the node sequence at position i of s.  A repeated set takes
\* the largest count (the smallest, when lazy) with which the rest matches:
\* that is the first success of the backtracking search.
RECURSIVE re_match(_, _, _, _)
re_match(nodes, s, i, caps) ==
    IF Len(nodes) = 0 THEN [ok |-> TRUE, start |-> 0, end |-> i, caps |-> caps]
    ELSE
    LET n == Head(nodes)
        rest == Tail(nodes)
    IN  CASE n.k = "set" ->
               IF i <= Len(s) /\ ((s[i] \in n.cs) # n.neg)
               THEN re_match(rest, s, i + 1, caps) ELSE NoMatch
          [] n.k = "lit" ->
               IF i + Len(n.str) - 1 <= Len(s)
                  /\ SubSeq(s, i, i + Len(n.str) - 1) = n.str
               THEN re_match(rest, s, i + Len(n.str), caps) ELSE NoMatch
          [] n.k = "many" ->
               LET counts == { c \in n.min..RunLength(n.set, s, i, n.max) :
                                 re_match(rest, s, i + c, caps).ok }
                   count == CHOOSE c \in counts :
                               \A d \in counts : IF n.lazy THEN c <= d ELSE c >= d
               IN  IF counts = {} THEN NoMatch
                   ELSE re_match(rest, s, i + count, caps)
          [] n.k = "opt" ->
               LET with == re_match(n.body \o rest, s, i, caps)
               IN  IF with.ok THEN with ELSE re_match(rest, s, i, caps)
          [] n.k = "alt" ->
               IF Len(n.alts) = 0 THEN NoMatch
               ELSE LET first == re_match(Head(n.alts) \o rest, s, i, caps)
                    IN  IF first.ok THEN first
                        ELSE re_match(<<Alt(Tail(n.alts))>> \o rest, s, i, caps)
          [] n.k = "grp" ->
               re_match(n.body \o <<[k |-> "close", idx |-> n.idx, from |-> i]>> \o rest,
                        s, i, caps)
          [] n.k = "close" ->
               re_match(rest, s, i,
                        [caps EXCEPT ![n.idx] = [from |-> n.from, to |-> i]])
          [] n.k = "ahead" ->
               IF re_match(n.body, s, i, caps).ok # n.neg
               THEN re_match(rest, s, i, caps) ELSE NoMatch
          [] n.k = "end" ->
               IF i = Len(s) + 1 \/ (i = Len(s) /\ s[i] = "\n")
               THEN re_match(rest, s, i, caps) ELSE NoMatch

Least(S) == CHOOSE j \in S : \A k \in S : j <= k

\* re.search(pattern, s) from position i on: the leftmost match
first_match(pattern, s, starts) ==
    IF starts = {} THEN NoMatch
    ELSE [re_match(pattern, s, Least(starts), NoCaps) EXCEPT !.start = Least(starts)]

re_search_from(pattern, s, i) ==
    first_match(pattern, s, { j \in i..(Len(s) + 1) : re_match(pattern, s, j, NoCaps).ok })

re_search(pattern, s) == re_search_from(pattern, s, 1)

\* match.group(g)
group(m, s, g) == SubSeq(s, m.caps[g].from, m.caps[g].to - 1)

\* re.sub(pattern, '', s) from position i on
RECURSIVE re_sub_from(_, _, _)
re_sub_match(pattern, s, i, m) ==
    IF ~m.ok \/ m.start > Len(s) THEN SubSeq(s, i, Len(s))
    ELSE IF m.end > m.start
    THEN SubSeq(s, i, m.start - 1) \o re_sub_from(pattern, s, m.end)
    ELSE SubSeq(s, i, m.start) \o re_sub_from(pattern, s, m.start + 1)

re_sub_from(pattern, s, i) == re_sub_match(pattern, s, i, re_search_from(pattern, s, i))

re_sub(pattern, s) == re_sub_from(pattern, s, 1)

DigitValue == [c \in DigitChars |->
    CASE c = "0" -> 0 [] c = "1" -> 1 [] c = "2" -> 2 [] c = "3" -> 3 [] c = "4" -> 4
      [] c = "5" -> 5 [] c = "6" -> 6 [] c = "7" -> 7 [] c = "8" -> 8 [] c = "9" -> 9]

\* int(g) of a digit group
RECURSIVE int(_)
int(digits) ==
    IF digits = <<>> THEN 0
    ELSE 10 * int(SubSeq(digits, 1, Len(digits) - 1)) + DigitValue[digits[Len(digits)]]

\* int(match.group(n)) for every group n of a match
int_groups(m, s) == [n \in 1..MaxGroups |-> int(group(m, s, n))]


---------------------------------------------------------------------------
(* enhanced_parser.py: EnhancedDataParser.extract_time_info                *)

\* (\d{min,max}) as group idx
Digits(idx, min, max) == <<Grp(idx, <<Many(In(DigitChars), min, max, FALSE)>>)>>
\* \s*  and  [，,\s]+  and  .
Spaces == <<Many(In(Whitespace), 0, -1, FALSE)>>
AnyChar == NotIn({"\n"})
Colon == In({"U+FF1A", ":"})
RangeSep == In({"-", "~", "U+81F3", "U+5230"})     \* [-~至到]

\* (\d{4})年(\d{1,2})月(\d{1,2})日 as groups g, g+1, g+2
CjkDate(g) ==
    Digits(g, 4, 4) \o Lit(<<"U+5E74">>) \o Digits(g + 1, 1, 2) \o Lit(<<"U+6708">>)
      \o Digits(g + 2, 1, 2) \o Lit(<<"U+65E5">>)
\* (\d{4})-(\d{1,2})-(\d{1,2}) as groups g, g+1, g+2
DashDate(g) ==
    Digits(g, 4, 4) \o Lit(<<"-">>) \o Digits(g + 1, 1, 2) \o Lit(<<"-">>)
      \o Digits(g + 2, 1, 2)
\* (\d{1,2}):(\d{2}) as groups g, g+1
Clock(g) == Digits(g, 1, 2) \o Lit(<<":">>) \o Digits(g + 1, 2, 2)

time_range_patterns ==
    << CjkDate(1)
         \o <<Opt(<<In({"U+FF08", "("}), Many(AnyChar, 0, -1, TRUE), In({"U+FF09", ")"})>>)>>
         \o Spaces \o Clock(4) \o Spaces \o <<RangeSep>> \o Spaces \o Clock(6),
       DashDate(1) \o <<Many(In({"T"} \cup Whitespace), 1, -1, FALSE)>>
         \o Clock(4) \o Spaces \o <<RangeSep>> \o Spaces \o Clock(6) >>

iso_range_pattern ==
    DashDate(1) \o Lit(<<"T">>) \o Clock(4) \o Lit(<<":">>) \o Digits(6, 2, 2)
      \o Spaces \o <<In({"-", "~"})>> \o Spaces
      \o DashDate(7) \o Lit(<<"T">>) \o Clock(10) \o Lit(<<":">>) \o Digits(12, 2, 2)

\* (?:label|word)[：:]\s*(\d{4})年(\d{1,2})月(\d{1,2})日[，,\s]+(\d{1,2}):(\d{2})
LabelledCjkMoment(label, word) ==
    <<Alt(<<Lit(label), Lit(word)>>), Colon>> \o Spaces \o CjkDate(1)
      \o <<Many(In({"U+FF0C", ","} \cup Whitespace), 1, -1, FALSE)>> \o Clock(4)

start_pattern == LabelledCjkMoment(<<"U+5F00", "U+59CB">>, <<"s","t","a","r","t">>)
end_pattern == LabelledCjkMoment(<<"U+7ED3", "U+675F">>, <<"e","n","d">>)

single_time_patterns ==
    << CjkDate(1) \o <<NotAhead(<<In(DigitChars \cup {":"})>>)>>,
       DashDate(1) \o <<NotAhead(<<In(DigitChars \cup {"T", ":"})>>)>>,
       Lit(<<"t","i","m","e">>) \o <<Colon>> \o Spaces \o DashDate(1) >>

Comment_start == <<"U+6D3B", "U+52A8", "U+5F00", "U+59CB">>      \* '活动开始'
Comment_end == <<"U+6D3B", "U+52A8", "U+7ED3", "U+675F">>        \* '活动结束'
Comment_key_date == <<"U+5173", "U+952E", "U+65E5", "U+671F">>   \* '关键日期'

NoTime == [date |-> <<>>, timeline |-> <<>>]

\* The (date_str, timeline) built from a start moment and an end moment
TimeRange(y1, m1, d1, h1, mi1, s1, y2, m2, d2, h2, mi2, s2) ==
    [date |-> <<DateStr(y1, m1, d1)>>,
     timeline |-> << TimelineEvent(Deadline(y1, m1, d1, h1, mi1, s1, ""), Comment_start),
                     TimelineEvent(Deadline(y2, m2, d2, h2, mi2, s2, ""), Comment_end) >>]

\* Priority 4: the first of single_time_patterns that matches, from pattern k on
RECURSIVE single_time(_, _)
key_date(g) ==
    [date |-> <<DateStr(g[1], g[2], g[3])>>,
     timeline |-> << TimelineEvent(Deadline(g[1], g[2], g[3], 0, 0, 0, ""),
                                   Comment_key_date) >>]

single_time_match(m, text, k) ==
    IF m.ok THEN key_date(int_groups(m, text)) ELSE single_time(text, k + 1)

single_time(text, k) ==
    IF k > Len(single_time_patterns) THEN NoTime
    ELSE single_time_match(re_search(single_time_patterns[k], text), text, k)

\* Priority 3: start_pattern and end_pattern both match
start_end_range(s, e) ==
    TimeRange(s[1], s[2], s[3], s[4], s[5], 0, e[1], e[2], e[3], e[4], e[5], 0)

\* A labelled start taken as a range of its own, whether or not an end is labelled
start_only_match(sm, text) ==
    IF sm.ok
    THEN start_end_range(int_groups(sm, text), int_groups(sm, text))
    ELSE single_time(text, 1)

separate_start_only(text) == start_only_match(re_search(start_pattern, text), text)

start_end_match(sm, em, text) ==
    IF sm.ok /\ em.ok
    THEN start_end_range(int_groups(sm, text), int_groups(em, text))
    ELSE single_time(text, 1)

separate_start_end(text) ==
    start_end_match(re_search(start_pattern, text), re_search(end_pattern, text), text)

\* Priority 2: iso_range_pattern
iso_range_found(g) ==
    TimeRange(g[1], g[2], g[3], g[4], g[5], g[6], g[7], g[8], g[9], g[10], g[11], g[12])

iso_range_match(m, text) ==
    IF m.ok THEN iso_range_found(int_groups(m, text)) ELSE separate_start_end(text)

iso_range(text) == iso_range_match(re_search(iso_range_pattern, text), text)

\* Priority 1: the first of time_range_patterns that matches, from pattern k on
RECURSIVE time_range(_, _)
time_range_found(g) ==
    TimeRange(g[1], g[2], g[3], g[4], g[5], 0, g[1], g[2], g[3], g[6], g[7], 0)

time_range_match(m, text, k) ==
    IF m.ok THEN time_range_found(int_groups(m, text)) ELSE time_range(text, k + 1)

time_range(text, k) ==
    IF k > Len(time_range_patterns) THEN iso_range(text)
    ELSE time_range_match(re_search(time_range_patterns[k], text), text, k)

\* EnhancedDataParser.extract_time_info: [date, timeline]; date is <<>> for None
EnhancedDataParser_extract_time_info(text) == time_range(text, 1)


---------------------------------------------------------------------------
(* enhanced_parser.py: EnhancedDataParser.extract_place_info               *)

\* The characters of [一-龥] that the model's texts and patterns use
CjkIdeographs ==
    { "U+4E09", "U+4E0A", "U+4E2D", "U+4E3E", "U+4E4B", "U+4E58",
      "U+4EA4", "U+4F1A", "U+4F5C", "U+4FE1", "U+505C", "U+5143",
      "U+516C", "U+516D", "U+5173", "U+51FB", "U+5230", "U+529E",
      "U+52A8", "U+53F7", "U+540D", "U+5468", "U+56ED", "U+56FD",
      "U+5730", "U+5740", "U+574A", "U+5750", "U+590F", "U+5927",
      "U+59CB", "U+5B66", "U+5B9A", "U+5C0F", "U+5DE5", "U+5E74",
      "U+5EA7", "U+5F00", "U+5F85", "U+606F", "U+626B", "U+62A5",
      "U+6309", "U+63A8", "U+63CF", "U+65E5", "U+65F6", "U+6708",
      "U+671F", "U+675F", "U+6821", "U+6B65", "U+6BD4", "U+6D3B",
      "U+6D77", "U+6E90", "U+70B9", "U+7814", "U+79BB", "U+7ADE",
      "U+7C73", "U+7EBF", "U+7ED3", "U+81F3", "U+8350", "U+884C",
      "U+8BA8", "U+8BAE", "U+8BB2", "U+8D5B", "U+8DDD", "U+8DEF",
      "U+8F66", "U+8FD1", "U+94C1", "U+952E", "U+957F", "U+95F4",
      "U+95F5", "U+9644", "U+9AD8" }

PlaceSeps == In({"U+FF0C", "U+FF1B"})    \* [，；；]
\* ([^\n。，；；\|]+) as group 1
PlaceValue == <<Grp(1, <<Many(NotIn({"\n", "U+3002", "U+FF0C", "U+FF1B", "|"}), 1, -1, FALSE)>>)>>

place_patterns ==
    << <<Alt(<<Lit(<<"U+5730", "U+70B9">>), Lit(<<"U+5730", "U+5740">>), Lit(<<"U+4E3E", "U+529E", "U+5730", "U+70B9">>), Lit(<<"U+4E3E", "U+529E", "U+5730">>)>>), Colon>>
         \o Spaces \o PlaceValue,
       <<Alt(<<Lit(<<"L","o","c","a","t","i","o","n">>), Lit(<<"P","l","a","c","e">>)>>),
         Colon>> \o Spaces \o PlaceValue,
       Lit(<<"U+1F4CD">>) \o Spaces \o PlaceValue >>

\* .*?(?=\s*[，；；]|$)
UpToSepOrEnd ==
    <<Many(AnyChar, 0, -1, TRUE),
      Ahead(<<Alt(<<Spaces \o <<PlaceSeps>>, <<EndAnchor>>>>)>>)>>
\* .*?$
UpToEnd == <<Many(AnyChar, 0, -1, TRUE), EndAnchor>>
DigitsPlus == <<Many(In(DigitChars), 1, -1, FALSE)>>

remove_keywords ==
    << Lit(<<"U+63A8", "U+8350">>) \o UpToSepOrEnd,
       <<PlaceSeps>> \o Spaces
         \o <<Alt(<<Lit(<<"U+505C", "U+8F66">>),
                      Lit(<<"U+5730", "U+94C1">>),
                      Lit(<<"U+516C", "U+4EA4">>),
                      Lit(<<"U+5730", "U+94C1", "U+7EBF", "U+8DEF">>),
                      Lit(<<"U+516C", "U+4EA4", "U+8F66">>),
                      Lit(<<"U+8DDD", "U+79BB">>),
                      Lit(<<"U+9644", "U+8FD1">>),
                      Lit(<<"U+63A8", "U+8350">>),
                      Lit(<<"U+6B65", "U+884C">>),
                      Lit(<<"U+5F00", "U+8F66">>),
                      Lit(<<"U+4E58", "U+5750">>)>>)>>
         \o UpToSepOrEnd,
       <<PlaceSeps>> \o Spaces \o DigitsPlus \o Lit(<<"U+5143", "/", "U+5C0F", "U+65F6">>) \o UpToSepOrEnd,
       <<PlaceSeps>> \o Spaces \o DigitsPlus
         \o <<Alt(<<Lit(<<"U+53F7", "U+7EBF">>), Lit(<<"U+8DEF">>), Lit(<<"U+7C73">>)>>)>> \o UpToSepOrEnd,
       Lit(<<"U+70B9", "U+51FB", "U+62A5", "U+540D">>) \o UpToEnd,
       Lit(<<"U+957F", "U+6309">>) \o UpToEnd,
       Lit(<<"U+626B", "U+63CF">>) \o UpToEnd >>

\* for pattern in remove_keywords: place = re.sub(pattern, '', place), from k on
RECURSIVE remove_loop(_, _)
remove_loop(place, k) ==
    IF k > Len(remove_keywords) THEN place
    ELSE remove_loop(re_sub(remove_keywords[k], place), k + 1)

\* The first of place_patterns that matches, from pattern k on: group(1).strip()
RECURSIVE place_match(_, _)
place_match_at(m, text, k) ==
    IF m.ok THEN strip(group(m, text, 1)) ELSE place_match(text, k + 1)

place_match(text, k) ==
    IF k > Len(place_patterns) THEN <<>>
    ELSE place_match_at(re_search(place_patterns[k], text), text, k)

\* place[:n]
Truncate(place, n) == SubSeq(place, 1, IF Len(place) > n THEN n ELSE Len(place))

\* [\u4e00-\u9fa5a-zA-Z]+
LettersPattern == <<Many(In(CjkIdeographs \cup LowerChars \cup UpperChars), 1, -1, FALSE)>>

\* The checks on the cleaned place: longer than 3 and holding a letter
cleaned_place(cleaned) ==
    IF Len(cleaned) > 3 /\ re_search(LettersPattern, Truncate(cleaned, 80)).ok
    THEN <<Truncate(cleaned, 80)>>
    ELSE <<>>

\* The cleaning of the matched place
found_place(found) ==
    IF found = <<>> THEN <<>>
    ELSE cleaned_place(re_sub(<<PlaceSeps, EndAnchor>>, strip(remove_loop(found, 1))))

\* EnhancedDataParser.extract_place_info: <<place>>, or <<>> for None
EnhancedDataParser_extract_place_info(text) == found_place(place_match(text, 1))


---------------------------------------------------------------------------
(* Decoded JSON.  A value is [t, v]: t is its JSON type ("absent" for a    *)
(* key that the object does not have), v its content; the activity object  *)
(* of the prompt is a record of the values of its keys.                    *)

J(t, v) == [t |-> t, v |-> v]
Absent == J("absent", <<>>)
Null == J("null", <<>>)
JStr(str) == J("str", str)
JList(items) == J("list", items)

Dict(title, description, category, tags, events, error) ==
    [title |-> title, description |-> description, category |-> category,
     tags |-> tags, events |-> events, error |-> error]
EmptyDict == Dict(Absent, Absent, Absent, Absent, Absent, Absent)

\* bool(d) of a dict, key in d, d.get(key, default) with None as <<>>
Truthy(d) == \E key \in DOMAIN d : d[key].t # "absent"
Has(d, key) == d[key].t # "absent"

\* An event object of the reply, or a value of another type in its place
EventDict(year, id, link, timezone, date, place, timeline) ==
    J("dict", [year |-> year, id |-> id, link |-> link, timezone |-> timezone,
               date |-> date, place |-> place, timeline |-> timeline])
\* A timeline entry: an object with the keys in keys, or a string
TimelineDict(keys, deadline, comment) ==
    J("dict", [keys |-> keys, deadline |-> deadline, comment |-> comment])

---------------------------------------------------------------------------
(* github_models_parser.py                                                 *)

\* GitHubModelsParser._parse_response; content is the reply's message text:
\* [t, fence, decodes, value]; the markdown fence is cut off, json.loads
\* raises JSONDecodeError (caught) or gives value; data.get of a value that
\* is no object raises AttributeError.
GitHubModelsParser_parse_response(content) ==
    IF content.t # "str" THEN [raised |-> "AttributeError", data |-> EmptyDict]
    ELSE IF ~content.decodes THEN [raised |-> "", data |-> EmptyDict]
    ELSE IF content.value.t # "dict"
    THEN [raised |-> "AttributeError", data |-> EmptyDict]
    ELSE [raised |-> "", data |-> content.value.v]

ErrorDict(message) == [EmptyDict EXCEPT !.error = JStr(message)]

\* GitHubModelsParser.parse; net is what the HTTP call did:
\* [raised, status, has_choices, content]
\* except Exception: return {}
DataOrEmpty(r) == IF r.raised # "" THEN EmptyDict ELSE r.data

GitHubModelsParser_parse(github_token, net) ==
    IF ~github_token THEN EmptyDict
    ELSE IF net.raised THEN EmptyDict
    ELSE IF net.status = 200
    THEN IF ~net.has_choices THEN EmptyDict
         ELSE DataOrEmpty(GitHubModelsParser_parse_response(net.content))
    ELSE IF net.status = 401 THEN ErrorDict("auth")
    ELSE ErrorDict("api")


---------------------------------------------------------------------------
(* enhanced_parser.py: description, tags, id                               *)

\* str.split(sep) for a one-character sep
split(s, sep) ==
    LET at == {i \in 1..Len(s) : s[i] = sep} \cup {0, Len(s) + 1}
        nth(k) == CHOOSE p \in at : Cardinality({q \in at : q < p}) = k
    IN  [k \in 1..(Cardinality(at) - 1) |-> SubSeq(s, nth(k - 1) + 1, nth(k) - 1)]

\* sub in s
Contains(s, sub) ==
    \E i \in 1..(Len(s) - Len(sub) + 1) : SubSeq(s, i, i + Len(sub) - 1) = sub

\* s[:n]
Prefix(s, n) == SubSeq(s, 1, IF Len(s) > n THEN n ELSE Len(s))

\* The loop of extract_description over lines[k..]
RECURSIVE description_loop(_, _, _)
description_line(lines, k, description, line) ==
    IF line # <<>> /\ ~HasPrefix(line, <<"U+65F6", "U+95F4">>) /\ ~HasPrefix(line, <<"U+5730", "U+70B9">>)
    THEN IF Len(description \o line \o <<" ">>) > 200 THEN description \o line \o <<" ">>
         ELSE description_loop(lines, k + 1, description \o line \o <<" ">>)
    ELSE description_loop(lines, k + 1, description)

description_loop(lines, k, description) ==
    IF k > Len(lines) THEN description
    ELSE description_line(lines, k, description, strip(lines[k]))

\* A description that is empty when no line qualifies
extract_description_or_empty(text) ==
    Prefix(description_loop(split(text, "\n"), 1, <<>>), 300)

\* EnhancedDataParser.extract_description
\* description[:300] if description else "活动信息"
description_or_default(description) ==
    IF description # <<>> THEN Prefix(description, 300)
    ELSE <<"U+6D3B", "U+52A8", "U+4FE1", "U+606F">>

EnhancedDataParser_extract_description(text) ==
    description_or_default(description_loop(split(text, "\n"), 1, <<>>))

keywords ==
    << [tag |-> <<"U+5F00", "U+6E90">>,
        keywords |-> << <<"U+5F00", "U+6E90">>,
                      <<"o", "p", "e", "n", " ", "s", "o", "u", "r", "c", "e">>,
                      <<"o", "p", "e", "n", "s", "o", "u", "r", "c", "e">> >>],
       [tag |-> <<"U+6821", "U+56ED">>,
        keywords |-> << <<"U+5927", "U+5B66">>,
                      <<"U+9AD8", "U+6821">>,
                      <<"U+6821", "U+56ED">>,
                      <<"u", "n", "i", "v", "e", "r", "s", "i", "t", "y">>,
                      <<"c", "a", "m", "p", "u", "s">> >>],
       [tag |-> <<"U+4F1A", "U+8BAE">>,
        keywords |-> << <<"U+4F1A", "U+8BAE">>,
                      <<"c", "o", "n", "f", "e", "r", "e", "n", "c", "e">>,
                      <<"s", "u", "m", "m", "i", "t">> >>],
       [tag |-> <<"U+7ADE", "U+8D5B">>,
        keywords |-> << <<"U+7ADE", "U+8D5B">>,
                      <<"c", "o", "m", "p", "e", "t", "i", "t", "i", "o", "n">>,
                      <<"U+6BD4", "U+8D5B">>,
                      <<"c", "o", "n", "t", "e", "s", "t">> >>],
       [tag |-> <<"U+8BB2", "U+5EA7">>,
        keywords |-> << <<"U+8BB2", "U+5EA7">>,
                      <<"t", "a", "l", "k">>,
                      <<"s", "e", "m", "i", "n", "a", "r">> >>],
       [tag |-> <<"U+5DE5", "U+4F5C", "U+574A">>,
        keywords |-> << <<"U+5DE5", "U+4F5C", "U+574A">>,
                      <<"w", "o", "r", "k", "s", "h", "o", "p">>,
                      <<"U+7814", "U+8BA8">> >>] >>

\* EnhancedDataParser.extract_tags: the lists that list(set(tags))[:5] can be;
\* the order in which a set of str is listed is not fixed by the code.
\* The tags whose keywords the text holds
keyword_tags(keyword_list, combined_text) ==
    { keyword_list[k].tag : k \in { j \in 1..Len(keyword_list) :
        \E w \in 1..Len(keyword_list[j].keywords) :
            Contains(combined_text, lower(keyword_list[j].keywords[w])) } }

\* list(set(tags))[:5]
listed(tags) ==
    { Prefix(order, 5) :
        order \in { f \in [1..Cardinality(tags) -> tags] :
                      \A a, b \in 1..Cardinality(tags) : a # b => f[a] # f[b] } }

EnhancedDataParser_extract_tags(title, text) ==
    listed(keyword_tags(keywords, lower(title \o <<" ">> \o text)))

\* EnhancedDataParser._generate_id: hashlib.md5(title.encode()).hexdigest()[:8],
\* tabulated for the titles of the model
EnhancedDataParser_generate_id(title) ==
    CASE title = <<>> -> <<"d", "4", "1", "d", "8", "c", "d", "9">> []
      title = <<"U+6D3B", "U+52A8">> -> <<"3", "6", "c", "6", "f", "5", "7", "2">> []
      title = <<"T">> -> <<"b", "9", "e", "c", "e", "1", "8", "c">> []
      title = <<"U+5F00", "U+6E90", "U+4E4B", "U+590F">> -> <<"a", "c", "4", "b", "3", "b", "2", "8">> []
      title = <<"O", "p", "e", "n", " ", "S", "o", "u", "r", "c", "e", " ", "S", "u", "m", "m", "i", "t">> -> <<"3", "a", "f", "9", "c", "8", "4", "0">>

\* ActivityCategory(category_str), ACTIVITY on ValueError
CategoryOf(category) ==
    IF category.t # "str" THEN "activity"
    ELSE CASE category.v = <<"c","o","n","f","e","r","e","n","c","e">> -> "conference"
           [] category.v = <<"c","o","m","p","e","t","i","t","i","o","n">> -> "competition"
           [] OTHER -> "activity"


---------------------------------------------------------------------------
(* enhanced_parser.py: EnhancedDataParser.parse                            *)

\* {"title": "活动", "description": "", "category": "activity", "tags": []}
DefaultLlmResult ==
    Dict(JStr(<<"U+6D3B", "U+52A8">>), JStr(<<>>), JStr(<<"a","c","t","i","v","i","t","y">>),
         JList(<<>>), Absent, Absent)

\* EnhancedDataParser.__init__: self.llm is set when the import works and
\* settings.GITHUB_TOKEN is non-empty
EnhancedDataParser_init(env) ==
    [kind |-> "EnhancedDataParser", github_parser |-> FALSE,
     llm |-> env.GITHUB_MODELS_AVAILABLE /\ env.GITHUB_TOKEN]

\* EnhancedDataParser._parse_with_llm; self.llm is None when no token is set
\* if response and 'title' in response: return response
response_or_default(response) ==
    IF Truthy(response) /\ Has(response, "title") THEN response ELSE DefaultLlmResult

EnhancedDataParser_parse_with_llm(self, net) ==
    IF ~self.llm THEN DefaultLlmResult
    ELSE response_or_default(GitHubModelsParser_parse(TRUE, net))

\* [TimelineEvent(deadline=t['deadline'], comment=t['comment']) for t in llm_timeline]
EntryError(t) ==
    IF t.t # "dict" THEN "TypeError"
    ELSE IF "deadline" \notin t.v.keys \/ "comment" \notin t.v.keys THEN "KeyError"
    ELSE ""

timeline_events_or_raise(llm_timeline, bad) ==
    IF bad # {}
    THEN [raised |-> EntryError(llm_timeline[Least(bad)]), timeline |-> <<>>]
    ELSE [raised |-> "",
          timeline |-> [j \in 1..Len(llm_timeline) |->
                          TimelineEvent(llm_timeline[j].v.deadline,
                                        llm_timeline[j].v.comment)]]

llm_timeline_events(llm_timeline) ==
    timeline_events_or_raise(llm_timeline,
        {j \in 1..Len(llm_timeline) : EntryError(llm_timeline[j]) # ""})

\* A choice that also takes an LLM timeline of as many entries as the
\* pattern timeline
longer_or_equal_timeline(llm_timeline, timeline) ==
    IF llm_timeline.t = "list" /\ Len(llm_timeline.v) > 0
          /\ Len(llm_timeline.v) >= Len(timeline)
    THEN llm_timeline_events(llm_timeline.v)
    ELSE [raised |-> "", timeline |-> timeline]

\* "LLM可能返回更好的timeline": the timeline after the reply's events were read
longer_timeline(llm_timeline, timeline) ==
    IF llm_timeline.t = "list" /\ Len(llm_timeline.v) > 0
          /\ Len(llm_timeline.v) > Len(timeline)
    THEN llm_timeline_events(llm_timeline.v)
    ELSE [raised |-> "", timeline |-> timeline]

better_timeline(llm_result, timeline) ==
    IF llm_result.events.t # "list" \/ Len(llm_result.events.v) = 0
    THEN [raised |-> "", timeline |-> timeline]
    ELSE IF llm_result.events.v[1].t # "dict"
    THEN [raised |-> "AttributeError", timeline |-> <<>>]
    ELSE longer_timeline(llm_result.events.v[1].v.timeline, timeline)

\* tags.extend(llm_tags); tags.extend(rule tags not yet in tags); tags[:5]
RECURSIVE extend_new(_, _)
extend_new(tags, rule_tags) ==
    IF rule_tags = <<>> THEN tags
    ELSE extend_new(IF Head(rule_tags) \in Range(tags) THEN tags
                    ELSE Append(tags, Head(rule_tags)),
                    Tail(rule_tags))

ParseRaised(exception) == [raised |-> exception, activity |-> NoActivity]

\* EnhancedDataParser.parse(extracted_text, source_url): the outcomes it can
\* have (they differ in the order of the rule tags).  now_year is
\* datetime.now().year; source_url is <<>> for None.
merged(extracted_text, source_url, now_year, time, place, llm_result, timeline) ==
    IF timeline.raised # "" THEN { ParseRaised(timeline.raised) }
    ELSE IF llm_result.title.t # "str" THEN { ParseRaised("TypeError") }
    ELSE
    { [raised |-> "",
       activity |->
         ParsedActivity(
           llm_result.title.v,
           IF llm_result.description.t = "str" /\ llm_result.description.v # <<>>
           THEN llm_result.description.v
           ELSE EnhancedDataParser_extract_description(extracted_text),
           CategoryOf(llm_result.category),
           Prefix(extend_new(IF llm_result.tags.t = "list" THEN llm_result.tags.v
                             ELSE <<>>,
                             rule_tags), 5),
           << ActivityEvent(now_year,
                            EnhancedDataParser_generate_id(llm_result.title.v),
                            source_url,
                            timeline.timeline,
                            "Asia/Shanghai",
                            time.date,
                            IF place = <<>> THEN <<>> ELSE place[1]) >>)]
      : rule_tags \in EnhancedDataParser_extract_tags(llm_result.title.v, extracted_text) }

\* The merge of the rule results with the LLM result
merge(extracted_text, source_url, now_year, time, place, llm_result) ==
    merged(extracted_text, source_url, now_year, time, place, llm_result,
           better_timeline(llm_result, time.timeline))

EnhancedDataParser_parse(self, extracted_text, source_url, net, now_year) ==
    merge(extracted_text, source_url, now_year,
          EnhancedDataParser_extract_time_info(extracted_text),
          EnhancedDataParser_extract_place_info(extracted_text),
          EnhancedDataParser_parse_with_llm(self, net))


---------------------------------------------------------------------------
(* data_parsing.py: DataParser                                             *)

\* A constructor that configures OpenAI whether or not GitHub Models is configured
DataParser_init_both_backends(use_github_models, env) ==
    [kind |-> "DataParser",
     github_parser |-> use_github_models /\ env.GITHUB_TOKEN /\ env.GITHUB_MODELS_AVAILABLE,
     llm |-> env.LANGCHAIN_AVAILABLE /\ env.OPENAI_API_KEY]

\* DataParser.__init__: at most one of github_parser and llm is set.  env is
\* [GITHUB_TOKEN, OPENAI_API_KEY, GITHUB_MODELS_AVAILABLE, LANGCHAIN_AVAILABLE]
DataParser_init(use_github_models, env) ==
    LET github == use_github_models /\ env.GITHUB_TOKEN /\ env.GITHUB_MODELS_AVAILABLE
    IN  [kind |-> "DataParser", github_parser |-> github,
         llm |-> ~github /\ env.LANGCHAIN_AVAILABLE /\ env.OPENAI_API_KEY]

\* str(year)
RECURSIVE str_int(_)
DigitOf(n) == CHOOSE c \in DigitChars : DigitValue[c] = n

str_int(n) ==
    IF n < 10 THEN <<DigitOf(n)>> ELSE Append(str_int(n \div 10), DigitOf(n % 10))

\* DataParser._extract_activity_hint
\* The first of lines[:10] whose stripped length is between 2 and 100
fit_lines(lines) ==
    {k \in 1..Len(lines) : k <= 10 /\ Len(strip(lines[k])) > 2 /\ Len(strip(lines[k])) < 100}

\* re.search(r'\b([A-Z]\S*)', text): the positions where it can start
word_starts(text) ==
    {i \in 1..Len(text) : /\ text[i] \in UpperChars
                          /\ i = 1 \/ text[i - 1] \in Whitespace}

word_at(text, start) ==
    SubSeq(text, start, start - 1 + RunLength(NotIn(Whitespace), text, start, -1))

hint(text, lines, fit, starts) ==
    IF fit # {} THEN strip(lines[Least(fit)])
    ELSE IF starts # {} THEN word_at(text, Least(starts))
    ELSE <<"a","c","t","i","v","i","t","y">>

hint_of_lines(text, lines) == hint(text, lines, fit_lines(lines), word_starts(text))

DataParser_extract_activity_hint(text) == hint_of_lines(text, split(text, "\n"))

\* DataParser._create_fallback_activity
\* int(year_match.group()) if year_match else datetime.now().year
matched_year(year_match, text, now_year) ==
    IF year_match.ok THEN int(SubSeq(text, year_match.start, year_match.end - 1))
    ELSE now_year

\* The fallback record for a title and a year
fallback_activity(title, year) ==
    ParsedActivity(title, <<>>, "activity", <<>>,
        << ActivityEvent(year,
               strip_hyphens(collapse_hyphens(
                   hyphenate(lower(title) \o <<"-">> \o str_int(year)))),
               <<>>, <<>>, "Asia/Shanghai", <<>>, <<>>) >>)

\* SimpleDataParser._generate_id
SimpleDataParser_generate_id(title, year) ==
    strip_hyphens(collapse_hyphens(
        hyphenate(lower(title) \o <<"-">> \o str_int(year))))

DataParser_create_fallback_activity(text, now_year) ==
    fallback_activity(
        DataParser_extract_activity_hint(text),
        matched_year(re_search(Lit(<<"2","0","2">>) \o <<In(DigitChars)>>, text),
                     text, now_year))

\* int(event_data.get('year', 0))
YearOf(year) ==
    CASE year.t = "absent" -> [raised |-> "", n |-> 0]
      [] year.t = "int" -> [raised |-> "", n |-> year.v]
      [] year.t = "str" ->
           IF year.v # <<>> /\ \A i \in 1..Len(year.v) : year.v[i] \in DigitChars
           THEN [raised |-> "", n |-> int(year.v)]
           ELSE [raised |-> "ValueError", n |-> 0]
      [] OTHER -> [raised |-> "TypeError", n |-> 0]

\* event_data.get(key, default)
GetOr(value, default) == IF value.t = "absent" THEN default ELSE value.v

\* One pass of the loop over data['events']: <<event>>, or <<>> when the
\* event's conversion raised (the event is skipped)
\* [TimelineEvent(...) for t in event_data.get('timeline', [])]
event_timeline(timeline) ==
    IF timeline.t = "absent" THEN [raised |-> "", timeline |-> <<>>]
    ELSE IF timeline.t # "list" THEN [raised |-> "TypeError", timeline |-> <<>>]
    ELSE llm_timeline_events(timeline.v)

event_of(e, timeline, year) ==
    IF timeline.raised # "" \/ year.raised # "" THEN <<>>
    ELSE << ActivityEvent(year.n, GetOr(e.id, <<>>), GetOr(e.link, <<>>),
                          timeline.timeline, GetOr(e.timezone, "Asia/Shanghai"),
                          GetOr(e.date, <<>>), GetOr(e.place, <<>>)) >>

dict_to_event(event_data) ==
    IF event_data.t # "dict" THEN <<>>
    ELSE event_of(event_data.v, event_timeline(event_data.v.timeline),
                  YearOf(event_data.v.year))

RECURSIVE dict_to_events(_)
dict_to_events(events) ==
    IF events = <<>> THEN <<>>
    ELSE dict_to_event(Head(events)) \o dict_to_events(Tail(events))

\* DataParser._dict_to_activity: [raised, activity]; None is written <<>>
DataParser_dict_to_activity(data) ==
    IF data.category.t \notin {"absent", "str"} THEN ParseRaised("AttributeError")
    ELSE IF data.events.t \notin {"absent", "list"} THEN ParseRaised("TypeError")
    ELSE [raised |-> "",
          activity |->
            ParsedActivity(GetOr(data.title, <<>>), GetOr(data.description, <<>>),
                           CategoryOf(J(data.category.t, lower(data.category.v))),
                           GetOr(data.tags, <<>>),
                           dict_to_events(GetOr(data.events, <<>>)))]


\* DataParser._parse_response; reply is the content of the OpenAI response:
\* [t, fence, decodes, value, text]
DataParser_parse_response(reply, now_year) ==
    IF reply.t # "str" THEN ParseRaised("AttributeError")
    ELSE IF ~reply.decodes
    THEN [raised |-> "",
          activity |-> DataParser_create_fallback_activity(strip(reply.text), now_year)]
    ELSE IF reply.value.t # "dict" THEN ParseRaised("AttributeError")
    ELSE DataParser_dict_to_activity(reply.value.v)

\* The GitHub Models branch of DataParser.parse: <<activity>> when it returns
returned_activity(result_dict, converted) ==
    IF Truthy(result_dict) /\ converted.raised = "" THEN <<converted.activity>> ELSE <<>>

github_branch(result_dict) ==
    returned_activity(result_dict, DataParser_dict_to_activity(result_dict))

\* DataParser.parse; net is what the HTTP call of the GitHub parser does,
\* openai what self.llm.invoke does: [raised, content]
parse_result(self, openai, github, response, fallback) ==
    IF github # <<>> THEN github[1]
    ELSE IF self.llm
    THEN IF openai.raised \/ response.raised # "" THEN fallback
         ELSE response.activity
    ELSE fallback

DataParser_parse(self, extracted_text, net, openai, now_year) ==
    parse_result(self, openai,
        IF self.github_parser THEN github_branch(GitHubModelsParser_parse(TRUE, net))
        ELSE <<>>,
        DataParser_parse_response(openai.content, now_year),
        DataParser_create_fallback_activity(extracted_text, now_year))

---------------------------------------------------------------------------
(* The pattern extraction functions on their own                           *)

\* Texts are up to MaxPhrases phrases in a row
MaxPhrases == 3

RECURSIVE Concat(_)
Concat(phrases) ==
    IF phrases = <<>> THEN <<>> ELSE Head(phrases) \o Concat(Tail(phrases))

\* "2025年6月1日（周日）", "2025年6月4日（周三）", "2025年6月4日", "09:00-18:00",
\* " ", "报名，"
TimePhrases ==
    { <<"2", "0", "2", "5", "U+5E74", "6", "U+6708", "1", "U+65E5", "U+FF08", "U+5468", "U+65E5", "U+FF09">>,
      <<"2", "0", "2", "5", "U+5E74", "6", "U+6708", "4", "U+65E5", "U+FF08", "U+5468", "U+4E09", "U+FF09">>,
      <<"2", "0", "2", "5", "U+5E74", "6", "U+6708", "4", "U+65E5">>,
      <<"0", "9", ":", "0", "0", "-", "1", "8", ":", "0", "0">>,
      <<" ">>,
      <<"U+62A5", "U+540D", "U+FF0C">> }

\* "地点：", "中国", "上海", "，", "线上"
PlacePhrases ==
    { <<"U+5730", "U+70B9", "U+FF1A">>, <<"U+4E2D", "U+56FD">>, <<"U+4E0A", "U+6D77">>, <<"U+FF0C">>, <<"U+7EBF", "U+4E0A">> }

\* "开源之夏，地点：中国，上海，2025年6月4日 09:00-18:00"
Example1 ==
    <<"U+5F00", "U+6E90", "U+4E4B", "U+590F", "U+FF0C", "U+5730", "U+70B9", "U+FF1A", "U+4E2D", "U+56FD", "U+FF0C", "U+4E0A", "U+6D77", "U+FF0C", "2", "0", "2", "5", "U+5E74", "6", "U+6708", "4", "U+65E5", " ", "0", "9", ":", "0", "0", "-", "1", "8", ":", "0", "0">>

\* Texts for each priority of extract_time_info, alone and combined, and with
\* numbers that no calendar or clock has
\* "2025-06-04T09:00:00 - 2025-06-05T18:00:00"
Text_IsoPair ==
    <<"2", "0", "2", "5", "-", "0", "6", "-", "0", "4", "T", "0", "9", ":", "0", "0", ":", "0", "0", " ", "-", " ", "2", "0", "2", "5", "-", "0", "6", "-", "0", "5", "T", "1", "8", ":", "0", "0", ":", "0", "0">>
\* "开始：2025年6月4日，09:00 结束：2025年6月5日，18:00"
Text_StartEnd ==
    <<"U+5F00", "U+59CB", "U+FF1A", "2", "0", "2", "5", "U+5E74", "6", "U+6708", "4", "U+65E5", "U+FF0C", "0", "9", ":", "0", "0", " ", "U+7ED3", "U+675F", "U+FF1A", "2", "0", "2", "5", "U+5E74", "6", "U+6708", "5", "U+65E5", "U+FF0C", "1", "8", ":", "0", "0">>
\* "开始：2025年6月4日，09:00"
Text_StartOnly ==
    <<"U+5F00", "U+59CB", "U+FF1A", "2", "0", "2", "5", "U+5E74", "6", "U+6708", "4", "U+65E5", "U+FF0C", "0", "9", ":", "0", "0">>
\* "2025-06-04T09:00:00 - 2025-06-05T18:00:00 2025年6月1日 09:00-18:00"
Text_IsoPairThenRange ==
    <<"2", "0", "2", "5", "-", "0", "6", "-", "0", "4", "T", "0", "9", ":", "0", "0", ":", "0", "0", " ", "-", " ", "2", "0", "2", "5", "-", "0", "6", "-", "0", "5", "T", "1", "8", ":", "0", "0", ":", "0", "0", " ", "2", "0", "2", "5", "U+5E74", "6", "U+6708", "1", "U+65E5", " ", "0", "9", ":", "0", "0", "-", "1", "8", ":", "0", "0">>
\* "2025-06-04T09:00:00 - 2025-06-05T18:00:00 2025年6月1日"
Text_IsoPairThenDate ==
    <<"2", "0", "2", "5", "-", "0", "6", "-", "0", "4", "T", "0", "9", ":", "0", "0", ":", "0", "0", " ", "-", " ", "2", "0", "2", "5", "-", "0", "6", "-", "0", "5", "T", "1", "8", ":", "0", "0", ":", "0", "0", " ", "2", "0", "2", "5", "U+5E74", "6", "U+6708", "1", "U+65E5">>
\* "start: 2025年6月4日 09:00 end: 2025年6月5日 18:00 2025-6-1"
Text_StartEndThenIsoDate ==
    <<"s", "t", "a", "r", "t", ":", " ", "2", "0", "2", "5", "U+5E74", "6", "U+6708", "4", "U+65E5", " ", "0", "9", ":", "0", "0", " ", "e", "n", "d", ":", " ", "2", "0", "2", "5", "U+5E74", "6", "U+6708", "5", "U+65E5", " ", "1", "8", ":", "0", "0", " ", "2", "0", "2", "5", "-", "6", "-", "1">>
\* "2025-6-4"
Text_IsoDate ==
    <<"2", "0", "2", "5", "-", "6", "-", "4">>
\* "time: 2025-06-04T10"
Text_TimeLabel ==
    <<"t", "i", "m", "e", ":", " ", "2", "0", "2", "5", "-", "0", "6", "-", "0", "4", "T", "1", "0">>
\* "2025年13月45日 25:99-26:00"
Text_MalformedRange ==
    <<"2", "0", "2", "5", "U+5E74", "1", "3", "U+6708", "4", "5", "U+65E5", " ", "2", "5", ":", "9", "9", "-", "2", "6", ":", "0", "0">>
\* "2025-13-45 25:99~26:00"
Text_MalformedIsoRange ==
    <<"2", "0", "2", "5", "-", "1", "3", "-", "4", "5", " ", "2", "5", ":", "9", "9", "~", "2", "6", ":", "0", "0">>
\* "2025年2月30日"
Text_MalformedDate ==
    <<"2", "0", "2", "5", "U+5E74", "2", "U+6708", "3", "0", "U+65E5">>

PriorityTexts ==
    { Text_IsoPair,
      Text_StartEnd,
      Text_StartOnly,
      Text_IsoPairThenRange,
      Text_IsoPairThenDate,
      Text_StartEndThenIsoDate,
      Text_IsoDate,
      Text_TimeLabel,
      Text_MalformedRange,
      Text_MalformedIsoRange,
      Text_MalformedDate }

ExtractTexts ==
    { Concat(phrases) : phrases \in SeqsUpTo(TimePhrases, MaxPhrases)
                                      \cup SeqsUpTo(PlacePhrases, MaxPhrases) }
      \cup {Example1} \cup PriorityTexts

InitExtract ==
    /\ validator = DataValidator_init(CHOOSE files \in CorpusFiles : TRUE)
    /\ settings = [VALIDATE_LINKS |-> FALSE]
    /\ activity = NoActivity
    /\ validation = NoValidation
    /\ source_text \in ExtractTexts
    /\ extracted = NoExtracted
    /\ parser = NoParser
    /\ parsed = NoParsed
    /\ run = NoRun
    /\ generated = NoGenerated

\* date_str, timeline = parser.extract_time_info(text)
ExtractedTime(r) ==
    [extracted EXCEPT !.called = "extract_time_info",
                      !.date = r.date, !.timeline = r.timeline]

ExtractTime ==
    /\ extracted.called = ""
    /\ extracted' = ExtractedTime(EnhancedDataParser_extract_time_info(source_text))
    /\ UNCHANGED <<validate_vars, source_text, parser, parsed, run, generated>>

\* place = parser.extract_place_info(text)
ExtractPlace ==
    /\ extracted.called = ""
    /\ extracted' = [extracted EXCEPT
                        !.called = "extract_place_info",
                        !.place = EnhancedDataParser_extract_place_info(source_text)]
    /\ UNCHANGED <<validate_vars, source_text, parser, parsed, run, generated>>

NextExtract == ExtractTime \/ ExtractPlace

SpecExtract == InitExtract /\ [][NextExtract]_vars

\* C8: for the text of Example 1, extract_place_info returns "中国，上海".
C8_Example1Place ==
    (source_text = Example1 /\ extracted.called = "extract_place_info")
        => extracted.place = << <<"U+4E2D", "U+56FD", "U+FF0C", "U+4E0A", "U+6D77">> >>

\* C8 fails: for the text of Example 1, extract_place_info returns None
C8_Example1NoPlace ==
    /\ source_text = Example1
    /\ extracted.called = "extract_place_info"
    /\ extracted.place = <<>>

\* A CJK date+time range as the text shows it: the date, an optional
\* parenthetical that holds no parenthesis, HH:MM, a separator, HH:MM
Parens == {"U+FF08", "(", "U+FF09", ")"}
cjk_range_pattern ==
    CjkDate(1)
      \o <<Opt(<<In({"U+FF08", "("}), Many(NotIn(Parens \cup {"\n"}), 0, -1, FALSE),
                 In({"U+FF09", ")"})>>)>>
      \o Spaces \o Clock(4) \o Spaces \o <<RangeSep>> \o Spaces \o Clock(6)

\* What extract_time_info is to return for each range that the text contains
CjkRanges(t) ==
    { LET m == re_match(cjk_range_pattern, t, j, NoCaps)
          g(n) == int(group(m, t, n))
      IN  TimeRange(g(1), g(2), g(3), g(4), g(5), 0, g(1), g(2), g(3), g(6), g(7), 0)
      : j \in { k \in 1..Len(t) : re_match(cjk_range_pattern, t, k, NoCaps).ok } }

\* C9: for a text that contains a CJK date+time range, extract_time_info
\* returns that range's date string and exactly two entries, '活动开始' at
\* its start time and '活动结束' at its end time, both on that date.
C9_CjkRangeExtracted ==
    (extracted.called = "extract_time_info" /\ CjkRanges(source_text) # {})
        => \E r \in CjkRanges(source_text) :
              extracted.date = r.date /\ extracted.timeline = r.timeline

\* C9 fails: "2025年6月1日（周日）2025年6月4日（周三）09:00-18:00" holds one
\* range, on 2025-06-04, and extract_time_info returns 2025-06-01
C9_RangeOnEarlierDate ==
    /\ source_text = Concat(<< <<"2", "0", "2", "5", "U+5E74", "6", "U+6708", "1", "U+65E5", "U+FF08", "U+5468", "U+65E5", "U+FF09">>,
                               <<"2", "0", "2", "5", "U+5E74", "6", "U+6708", "4", "U+65E5", "U+FF08", "U+5468", "U+4E09", "U+FF09">>,
                               <<"0", "9", ":", "0", "0", "-", "1", "8", ":", "0", "0">> >>)
    /\ extracted.called = "extract_time_info"
    /\ CjkRanges(source_text)
         = { TimeRange(2025, 6, 4, 9, 0, 0, 2025, 6, 4, 18, 0, 0) }
    /\ extracted.date = <<DateStr(2025, 6, 1)>>
    /\ Len(extracted.timeline) = 2

\* The patterns of a list that match somewhere in the text
Matching(patterns, text) ==
    { k \in 1..Len(patterns) : re_search(patterns[k], text).ok }

\* The numbers that the first matching pattern of a list captured
FirstGroups(patterns, text) ==
    int_groups(re_search(patterns[Least(Matching(patterns, text))], text), text)

\* One timeline entry
Entry(y, m, d, h, mi, s, comment) == TimelineEvent(Deadline(y, m, d, h, mi, s, ""), comment)

\* What the highest priority that matches a text gives, and nothing of the others
HighestPriority(text) ==
    CASE Matching(time_range_patterns, text) # {} ->
           LET g == FirstGroups(time_range_patterns, text)
           IN  [date |-> <<DateStr(g[1], g[2], g[3])>>,
                timeline |-> << Entry(g[1], g[2], g[3], g[4], g[5], 0, Comment_start),
                                Entry(g[1], g[2], g[3], g[6], g[7], 0, Comment_end) >>]
      [] Matching(<<iso_range_pattern>>, text) # {} ->
           LET g == FirstGroups(<<iso_range_pattern>>, text)
           IN  [date |-> <<DateStr(g[1], g[2], g[3])>>,
                timeline |-> << Entry(g[1], g[2], g[3], g[4], g[5], g[6], Comment_start),
                                Entry(g[7], g[8], g[9], g[10], g[11], g[12], Comment_end) >>]
      [] Matching(<<start_pattern, end_pattern>>, text) = {1, 2} ->
           LET s == FirstGroups(<<start_pattern>>, text)
               e == FirstGroups(<<end_pattern>>, text)
           IN  [date |-> <<DateStr(s[1], s[2], s[3])>>,
                timeline |-> << Entry(s[1], s[2], s[3], s[4], s[5], 0, Comment_start),
                                Entry(e[1], e[2], e[3], e[4], e[5], 0, Comment_end) >>]
      [] Matching(single_time_patterns, text) # {} ->
           LET g == FirstGroups(single_time_patterns, text)
           IN  [date |-> <<DateStr(g[1], g[2], g[3])>>,
                timeline |-> << Entry(g[1], g[2], g[3], 0, 0, 0, Comment_key_date) >>]
      [] OTHER -> [date |-> <<>>, timeline |-> <<>>]

\* C25: extract_time_info returns what the highest-priority pattern that matches
\* the text gives and nothing of a lower one: a range with clock times, then a
\* pair of ISO timestamps, then a labelled start and end (only with both labels
\* in the text), then a bare date as one entry at T00:00:00 with the comment
\* '关键日期'; the timeline has 0, 1 or 2 entries, and the result is (None, [])
\* when no pattern matches
C25_HighestPriorityPatternOnly ==
    extracted.called = "extract_time_info"
      => /\ Len(extracted.timeline) \in {0, 1, 2}
         /\ [date |-> extracted.date, timeline |-> extracted.timeline]
              = HighestPriority(source_text)

\* C25: a text holds a pair of ISO timestamps and, after it, a range with clock
\* times: the range, of the higher priority, is returned alone
C25_RangeBeatsLaterIsoPair ==
    /\ extracted.called = "extract_time_info"
    /\ source_text = Text_IsoPairThenRange
    /\ Matching(<<iso_range_pattern>>, source_text) # {}
    /\ extracted.date = <<DateStr(2025, 6, 1)>>
    /\ extracted.timeline = << Entry(2025, 6, 1, 9, 0, 0, Comment_start),
                               Entry(2025, 6, 1, 18, 0, 0, Comment_end) >>

\* Some pattern of extract_time_info matches the text
SomePatternMatches(text) ==
    \/ Matching(time_range_patterns, text) # {}
    \/ Matching(<<iso_range_pattern>>, text) # {}
    \/ Matching(<<start_pattern, end_pattern>>, text) = {1, 2}
    \/ Matching(single_time_patterns, text) # {}

\* C26: captured numbers that no calendar or clock has (month 13, day 45, hour 25,
\* minute 99) make extract_time_info treat the pattern as not matching and try
\* the next one, so that every deadline it returns is an ISO-8601 timestamp that
\* DataValidator._is_valid_iso8601 accepts
C26_DeadlinesAlwaysValid ==
    extracted.called = "extract_time_info"
      => \A i \in 1..Len(extracted.timeline) :
            DataValidator_is_valid_iso8601(extracted.timeline[i].deadline)

\* C26: "2025年13月45日 25:99-26:00" matches the first range pattern and is returned
\* as 2025-13-45T25:99:00 and 2025-13-45T26:00:00, which the validator rejects
C26_MalformedRangeReturned ==
    /\ extracted.called = "extract_time_info"
    /\ source_text = Text_MalformedRange
    /\ extracted.date = <<DateStr(2025, 13, 45)>>
    /\ extracted.timeline = << Entry(2025, 13, 45, 25, 99, 0, Comment_start),
                               Entry(2025, 13, 45, 26, 0, 0, Comment_end) >>
    /\ \A i \in 1..2 : ~DataValidator_is_valid_iso8601(extracted.timeline[i].deadline)

\* C26, as the code behaves: a pattern that matches is returned whatever its
\* numbers are: the timeline is empty only when no pattern matches the text
C26_MatchReturnedWhateverItsNumbers ==
    extracted.called = "extract_time_info"
      => ((extracted.timeline = <<>>) <=> ~SomePatternMatches(source_text))


---------------------------------------------------------------------------
(* EnhancedDataParser.parse followed by DataValidator.validate              *)

\* The environment of a parser: tokens set, optional packages importable
Environments ==
    [GITHUB_TOKEN : BOOLEAN, OPENAI_API_KEY : BOOLEAN,
     GITHUB_MODELS_AVAILABLE : BOOLEAN, LANGCHAIN_AVAILABLE : BOOLEAN]

\* What the HTTP call of GitHubModelsParser.parse can do
NoNet == [raised |-> FALSE, status |-> 0, has_choices |-> FALSE,
          content |-> [t |-> "null", fence |-> FALSE, decodes |-> FALSE, value |-> Null]]
Transport == [NoNet EXCEPT !.raised = TRUE]
Status(code) == [NoNet EXCEPT !.status = code]
Content(decodes, value) ==
    [raised |-> FALSE, status |-> 200, has_choices |-> TRUE,
     content |-> [t |-> "str", fence |-> FALSE, decodes |-> decodes, value |-> value]]
Reply(dict) == Content(TRUE, J("dict", dict))

Title_OSPP == <<"U+5F00", "U+6E90", "U+4E4B", "U+590F">>       \* "开源之夏"
LlmTimeline(keys) ==
    JList(<< TimelineDict(keys, Deadline(2025, 6, 4, 9, 0, 0, ""), <<"c">>),
             TimelineDict(keys, Deadline(2025, 6, 4, 18, 0, 0, ""), <<"c">>),
             TimelineDict(keys, Deadline(2025, 6, 5, 18, 0, 0, ""), <<"c">>) >>)
LlmEvent(timeline) ==
    EventDict(J("int", 2025), JStr(<<"o","s","p","p","-","2","0","2","5">>), JStr(GoodLink),
              J("str", "Asia/Shanghai"), Absent, Absent, timeline)
LlmDict(title, events) ==
    Dict(title, JStr(<<"d">>), JStr(<<"c","o","m","p","e","t","i","t","i","o","n">>),
         JList(<< <<"a","i">> >>), events, Absent)

\* The first n entries of the reply's timeline
LlmTimelineOf(n) == JList(SubSeq(LlmTimeline({"deadline", "comment"}).v, 1, n))

\* A reply with the given tags, and no events
LlmTagged(tags) ==
    Dict(JStr(Title_OSPP), JStr(<<"d">>), JStr(<<"c","o","m","p","e","t","i","t","i","o","n">>),
         tags, Absent, Absent)

Tag_OpenSource == <<"U+5F00", "U+6E90">>      \* "开源"
Tag_Conference == <<"U+4F1A", "U+8BAE">>      \* "会议"
SixTags == << <<"a","i">>, <<"w","e","b">>, <<"o","s">>, <<"d","b">>, <<"m","l">>, <<"g","o">> >>

\* Replies that differ in the timeline of the first event, in the number of
\* events, in the title and in the tags
MergeReplies ==
    { Reply(LlmDict(JStr(Title_OSPP), JList(<<LlmEvent(LlmTimelineOf(1))>>))),
      Reply(LlmDict(JStr(Title_OSPP), JList(<<LlmEvent(LlmTimelineOf(2))>>))),
      Reply(LlmDict(JStr(Title_OSPP), JList(<<LlmEvent(JList(<<>>))>>))),
      Reply(LlmDict(JStr(Title_OSPP), JList(<<LlmEvent(LlmTimelineOf(1)),
                                              LlmEvent(LlmTimelineOf(3))>>))),
      Reply(LlmDict(JStr(<<>>), Absent)),
      Reply(LlmTagged(JList(<< <<"a","i">>, <<"a","i">> >>))),
      Reply(LlmTagged(JList(SixTags))),
      Reply(LlmTagged(JList(<< Tag_Conference, Tag_OpenSource >>))),
      Reply(LlmTagged(JList(<<>>))),
      Reply(LlmTagged(Absent)) }

LlmReplies ==
    { Reply(LlmDict(JStr(Title_OSPP), JList(<<LlmEvent(LlmTimeline({"deadline", "comment"}))>>))),
      Reply(LlmDict(JStr(Title_OSPP), JList(<<LlmEvent(LlmTimeline({"deadline"}))>>))),
      Reply(LlmDict(JStr(Title_OSPP), JList(<<LlmEvent(JList(<<JStr(<<"x">>)>>))>>))),
      Reply(LlmDict(JStr(Title_OSPP), JList(<<LlmEvent(Absent)>>))),
      Reply(LlmDict(JStr(Title_OSPP), JList(<<JStr(<<"x">>)>>))),
      Reply(LlmDict(JStr(Title_OSPP), Absent)),
      Reply(LlmDict(JStr(<<"T">>), JList(<<>>))),
      Reply(LlmDict(Null, Absent)),
      Reply(LlmDict(Absent, Absent)),
      Reply(EmptyDict) }

NetOutcomes ==
    { Transport, Status(401), Status(500),
      [Content(TRUE, Null) EXCEPT !.has_choices = FALSE],
      [Content(TRUE, Null) EXCEPT !.content.t = "null"],
      Content(FALSE, Null), Content(TRUE, JList(<<>>)) } \cup LlmReplies
      \cup MergeReplies

\* "2024年6月4日 09:00-18:00": a range of the year before datetime.now().year
Text_LastYear ==
    <<"2", "0", "2", "4", "U+5E74", "6", "U+6708", "4", "U+65E5", " ", "0", "9", ":", "0", "0", "-", "1", "8", ":", "0", "0">>

\* "", "开源之夏", "时间：待定", "Open Source Summit\n地点：上海交大闵行",
\* "2025年6月4日 09:00-18:00", a line of 101 letters, Example 1, and Text_LastYear
ParseTexts ==
    { <<>>,
      Title_OSPP,
      <<"U+65F6", "U+95F4", "U+FF1A", "U+5F85", "U+5B9A">>,
      <<"O", "p", "e", "n", " ", "S", "o", "u", "r", "c", "e", " ", "S", "u", "m", "m", "i", "t", "\n", "U+5730", "U+70B9", "U+FF1A", "U+4E0A", "U+6D77", "U+4EA4", "U+5927", "U+95F5", "U+884C">>,
      <<"2", "0", "2", "5", "U+5E74", "6", "U+6708", "4", "U+65E5", " ", "0", "9", ":", "0", "0", "-", "1", "8", ":", "0", "0">>,
      Rep("a", 101),
      Example1,
      Text_LastYear }

BadLink == <<"f","t","p",":","/","/","x">>
SourceUrls == { <<>>, GoodLink, BadLink }
Years == { 2025 }

\* A corpus that holds the id generated for the title '活动'
CorpusWithGeneratedId ==
    [c \in Range(DATA_FILE_MAP) |->
        IF c = "activity"
        THEN CorpusFile("ok", << [tags |-> <<>>,
                                  events |-> << CorpusEvent(EnhancedDataParser_generate_id(
                                                     <<"U+6D3B", "U+52A8">>)) >>] >>)
        ELSE CorpusFile("missing", <<>>)]
EmptyCorpus == [c \in Range(DATA_FILE_MAP) |-> CorpusFile("missing", <<>>)]

InitEnhanced ==
    /\ validator \in { DataValidator_init(EmptyCorpus),
                       DataValidator_init(CorpusWithGeneratedId) }
    /\ settings \in Settings
    /\ activity = NoActivity
    /\ validation = NoValidation
    /\ source_text \in ParseTexts
    /\ extracted = NoExtracted
    /\ parser \in { EnhancedDataParser_init(env) : env \in Environments }
    /\ parsed = NoParsed
    /\ run = NoRun
    /\ generated = NoGenerated

\* activity = await parser.parse(extracted_text, source_url)
ParseEnhanced ==
    /\ ~parsed.called
    /\ \E source_url \in SourceUrls, now_year \in Years,
          net \in IF parser.llm THEN NetOutcomes ELSE {NoNet} :
          \E outcome \in EnhancedDataParser_parse(parser, source_text, source_url,
                                                  net, now_year) :
              parsed' = [called |-> TRUE, raised |-> outcome.raised,
                         activity |-> outcome.activity, net |-> net,
                         source_url |-> source_url, now_year |-> now_year]
    /\ UNCHANGED <<validate_vars, source_text, extracted, parser, run, generated>>

\* validation = validator.validate(activity) on the record that parse returned
ValidateParsed ==
    /\ parsed.called /\ parsed.raised = ""
    /\ ~validation.called
    /\ \E head \in HeadOutcomes :
          validation' = ValidationOutcome(
                            DataValidator_validate(validator, parsed.activity, settings, head))
    /\ activity' = parsed.activity
    /\ UNCHANGED <<validator, settings, parse_vars, run, generated>>

NextEnhanced == ParseEnhanced \/ ValidateParsed

SpecEnhanced == InitEnhanced /\ [][NextEnhanced]_vars


\* C4: whatever the LLM call does, EnhancedDataParser.parse returns a record
\* and no exception leaves it.
C4_ParseNeverRaises == parsed.called => parsed.raised = ""

\* C4 fails: the reply is a JSON object whose timeline entries have no
\* 'comment' key, and KeyError leaves parse
C4_KeyErrorLeavesParse ==
    /\ parsed.called
    /\ parsed.net = Reply(LlmDict(JStr(Title_OSPP),
                                  JList(<<LlmEvent(LlmTimeline({"deadline"}))>>)))
    /\ parsed.raised = "KeyError"

\* The failures of the LLM call that parse does recover from
LlmUnavailable ==
    \/ ~parser.llm
    \/ parsed.net.raised
    \/ parsed.net.status # 200
    \/ ~parsed.net.has_choices
    \/ parsed.net.content.t # "str"
    \/ ~parsed.net.content.decodes
    \/ parsed.net.content.value.t # "dict"

\* C4, the part that holds: no token, a transport exception, a non-200
\* status, an undecodable reply or a reply that is no JSON object never makes
\* parse raise.
C4_UnavailableLlmRecovered ==
    (parsed.called /\ LlmUnavailable) => parsed.raised = ""

\* No LLM contribution: _parse_with_llm gives its default result
NoLlmContribution ==
    parsed.called /\ EnhancedDataParser_parse_with_llm(parser, parsed.net) = DefaultLlmResult

\* No time pattern and no place pattern matches the text
AllPatterns ==
    Range(time_range_patterns) \cup {iso_range_pattern}
      \cup {start_pattern, end_pattern}
      \cup Range(single_time_patterns) \cup Range(place_patterns)
NoPatternMatches == \A pattern \in AllPatterns : ~re_search(pattern, source_text).ok

Example2 == NoLlmContribution /\ parsed.raised = "" /\ NoPatternMatches

\* The record of Example 2: non-empty title, category activity, one event
\* with empty place, date and timeline
PlaceholderRecord ==
    /\ parsed.activity.title # <<>>
    /\ parsed.activity.category = "activity"
    /\ Len(parsed.activity.events) = 1
    /\ parsed.activity.events[1].place = <<>>
    /\ parsed.activity.events[1].date = <<>>
    /\ parsed.activity.events[1].timeline = <<>>

\* The validation of Example 2 took place with the id not in the corpus
Example2Validated ==
    /\ Example2
    /\ validation.called
    /\ parsed.activity.events[1].id \notin validator.existing_ids

Warned(field, issue) ==
    \E k \in 1..Len(validation.warnings) :
        validation.warnings[k].field = field /\ validation.warnings[k].issue = issue

MissingWarnings ==
    /\ Warned("events[0].place", "place missing")
    /\ Warned("events[0].date", "date missing")
    /\ Warned("events[0].timeline", "timeline missing")

LinkAbsentOrUrl ==
    LET link == parsed.activity.events[1].link
    IN  link = <<>> \/ match_url_pattern(link)

\* C10 as stated: the record of Example 2 validates with zero errors and a
\* warning for each of missing description, place, date, timeline.
C10_WarnsMissingDescription ==
    /\ Example2 => PlaceholderRecord
    /\ Example2Validated =>
          /\ validation.raised = ""
          /\ validation.errors = <<>>
          /\ MissingWarnings
          /\ Warned("description", "description missing")

\* C10: with no LLM contribution and a text that no time or place pattern
\* matches, the record has a non-empty title and description, category
\* activity and one event with empty place, date and timeline; validated
\* with its id not in the corpus and its link absent or an http(s) URL, it
\* gets zero errors, a warning for each of missing place, date, timeline,
\* and no warning for a missing description.
C10_PlaceholderDescription ==
    /\ Example2 => PlaceholderRecord /\ parsed.activity.description # <<>>
    /\ (Example2Validated /\ LinkAbsentOrUrl) =>
          /\ validation.raised = ""
          /\ validation.errors = <<>>
          /\ validation.is_valid
          /\ MissingWarnings
          /\ ~Warned("description", "description missing")

\* C10 happens: the empty text, no LLM, no source URL; description '活动信息'
C10_PlaceholderValidated ==
    /\ Example2Validated
    /\ ~parser.llm
    /\ source_text = <<>>
    /\ parsed.activity.description = <<"U+6D3B", "U+52A8", "U+4FE1", "U+606F">>
    /\ parsed.activity.events[1].link = <<>>
    /\ validation.errors = <<>>
    /\ Warned("events[0].link", "link missing")
    /\ MissingWarnings


\* Every outcome that parse can have on the inputs of the run in the state
Reruns ==
    EnhancedDataParser_parse(parser, source_text, parsed.source_url, parsed.net,
                             parsed.now_year)

\* The rule tags of the run: the tags whose keywords the title or the text holds
RuleTagSet ==
    keyword_tags(keywords, lower(parsed.activity.title \o <<" ">> \o source_text))

\* C14: parse run again on the same text, source URL and LLM reply yields
\* the same outcome: identical fields, with the same tags in the same order.
C14_ParseDeterministic ==
    parsed.called =>
        \A again \in Reruns :
            again.raised = parsed.raised /\ again.activity = parsed.activity

\* C14's case: the text holds the keywords of two rule tags, and a second
\* run on the same inputs lists the two in the other order
C14_TagsInOtherOrder ==
    /\ parsed.called /\ parsed.raised = ""
    /\ Cardinality(RuleTagSet) = 2
    /\ parsed.activity.tags = << <<"U+5F00", "U+6E90">>, <<"U+4F1A", "U+8BAE">> >>
    /\ \E again \in Reruns :
          again.activity.tags = << <<"U+4F1A", "U+8BAE">>, <<"U+5F00", "U+6E90">> >>

\* C14, as the code behaves: a second run gives the same outcome up to the
\* order of the tags, and the same tags in the same order when fewer than
\* two rule tags match.
C14_DeterministicUpToTagOrder ==
    parsed.called =>
        \A again \in Reruns :
            /\ again.raised = parsed.raised
            /\ parsed.raised = "" =>
                  /\ [again.activity EXCEPT !.tags = <<>>] =
                        [parsed.activity EXCEPT !.tags = <<>>]
                  /\ Len(again.activity.tags) = Len(parsed.activity.tags)
                  /\ Cardinality(RuleTagSet) < 2 =>
                        again.activity.tags = parsed.activity.tags

\* The LLM dictionary of the run, and the timeline that the patterns found
LlmResult == EnhancedDataParser_parse_with_llm(parser, parsed.net)
PatternTimeline == EnhancedDataParser_extract_time_info(source_text).timeline

\* llm_result['events'][0]['timeline'] as a list; <<>> when the dictionary has
\* no events, no first event object, or no timeline list in it
FirstEventTimeline(llm_result) ==
    IF llm_result.events.t = "list" /\ Len(llm_result.events.v) > 0
          /\ llm_result.events.v[1].t = "dict"
          /\ llm_result.events.v[1].v.timeline.t = "list"
    THEN llm_result.events.v[1].v.timeline.v
    ELSE <<>>

\* The timeline entries deadline and comment of each object of the list
AsTimeline(llm_timeline) ==
    [j \in 1..Len(llm_timeline) |->
        TimelineEvent(llm_timeline[j].v.deadline, llm_timeline[j].v.comment)]

Parsed == parsed.called /\ parsed.raised = ""

\* C16: the timeline of the record that parse returns is the timeline of the
\* LLM's first event exactly when that has strictly more entries than the
\* pattern timeline; on a tie, and when the LLM gives no events or no
\* timeline, it is the pattern timeline.
C16_LongerTimelineWins ==
    Parsed =>
        LET pattern == PatternTimeline
            llm == FirstEventTimeline(LlmResult)
        IN  parsed.activity.events[1].timeline =
                (IF Len(llm) > Len(pattern) THEN AsTimeline(llm) ELSE pattern)

\* C16 happens: the LLM's first event and the patterns both have a timeline
\* of two entries, the two differ, and the record has the pattern timeline
C16_TieKeepsPatternTimeline ==
    /\ Parsed
    /\ Len(FirstEventTimeline(LlmResult)) = 2
    /\ LET pattern == PatternTimeline
       IN  /\ Len(pattern) = 2
           /\ AsTimeline(FirstEventTimeline(LlmResult)) # pattern
           /\ parsed.activity.events[1].timeline = pattern

\* The LLM's first event has three entries and the patterns found two, and
\* the record has the LLM's three
LlmTimelineTaken ==
    /\ Parsed
    /\ Len(FirstEventTimeline(LlmResult)) = 3
    /\ Len(PatternTimeline) = 2
    /\ parsed.activity.events[1].timeline = AsTimeline(FirstEventTimeline(LlmResult))

\* The value of a key of the JSON object that the LLM replied with; Absent
\* when there is no such object
ReplyValue(key) ==
    IF LlmUnavailable THEN Absent ELSE parsed.net.content.value.v[key]

DefaultTitle == <<"U+6D3B", "U+52A8">>      \* "活动"

\* C17: the title of the record that parse returns is never empty; with no
\* title or an empty title in the LLM dictionary it is the default title.
C17_TitleNeverEmpty ==
    Parsed =>
        /\ parsed.activity.title # <<>>
        /\ ReplyValue("title") \in {Absent, JStr(<<>>)} =>
              parsed.activity.title = DefaultTitle

\* C17's case: the LLM's object has the title "", and the record that parse
\* returned has the empty title
C17_EmptyLlmTitleKept ==
    /\ Parsed
    /\ ReplyValue("title") = JStr(<<>>)
    /\ parsed.activity.title = <<>>

\* C17, as the code behaves: the title is the LLM's title whenever the
\* LLM's object has one, empty or not, and the default title when it has
\* none.
C17_TitleIsLlmTitleOrDefault ==
    Parsed =>
        /\ ReplyValue("title").t = "absent" => parsed.activity.title = DefaultTitle
        /\ ReplyValue("title").t = "str" =>
              parsed.activity.title = ReplyValue("title").v
        /\ ReplyValue("title").t \in {"absent", "str"}

\* The tag list of the LLM dictionary that parse merges; <<>> when it has none
LlmTags == IF LlmResult.tags.t = "list" THEN LlmResult.tags.v ELSE <<>>

\* C18: the tags of the record that parse returns are the LLM's tags (the
\* first five of them) whenever the LLM's tag list is non-empty; rule tags
\* are in the record only when the LLM's list is absent or empty.
C18_LlmTagsExcludeRuleTags ==
    (Parsed /\ LlmTags # <<>>) => parsed.activity.tags = Prefix(LlmTags, 5)

\* C18's case: the LLM's tags are ['ai'], the text holds the keyword of the
\* rule tag '开源', and the record has both
C18_RuleTagAfterLlmTags ==
    /\ Parsed
    /\ LlmTags = << <<"a","i">> >>
    /\ Tag_OpenSource \in RuleTagSet
    /\ parsed.activity.tags = << <<"a","i">>, Tag_OpenSource >>

\* C18, as the code behaves: the record's tags are the first five of the
\* LLM's tags followed by the rule tags that are not among the LLM's tags.
C18_LlmTagsThenNewRuleTags ==
    Parsed =>
        LET tags == parsed.activity.tags
            new == RuleTagSet \ Range(LlmTags)
            all == Len(LlmTags) + Cardinality(new)
        IN  /\ Len(tags) = (IF all < 5 THEN all ELSE 5)
            /\ \A k \in 1..Len(tags) :
                  IF k <= Len(LlmTags) THEN tags[k] = LlmTags[k] ELSE tags[k] \in new
            /\ \A j, k \in (Len(LlmTags) + 1)..Len(tags) : j # k => tags[j] # tags[k]

NoDuplicates(list) == \A j, k \in 1..Len(list) : j # k => list[j] # list[k]

\* C19: the record that a builder returns has at most five tags and no tag
\* twice.
C19_TagsBoundedAndDistinct ==
    Parsed => (Len(parsed.activity.tags) <= 5 /\ NoDuplicates(parsed.activity.tags))

\* C19's case: the LLM's tags are ['ai', 'ai'], and the record that parse
\* returned has the tag twice
C19_DuplicateLlmTagKept ==
    /\ Parsed
    /\ LlmTags = << <<"a","i">>, <<"a","i">> >>
    /\ Len(parsed.activity.tags) >= 2
    /\ parsed.activity.tags[1] = <<"a","i">>
    /\ parsed.activity.tags[2] = <<"a","i">>

\* The same for DataParser.parse: the record has the LLM's six tags
SixTagsKept ==
    /\ parsed.called
    /\ parser.kind = "DataParser"
    /\ parsed.activity.tags = SixTags

\* C19, as the code behaves: the record of EnhancedDataParser.parse has at
\* most five tags, its tags begin with the LLM's in the LLM's order, and it
\* has a tag twice only when the LLM's list has.
C19_AtMostFiveDuplicatesFromLlm ==
    Parsed =>
        /\ Len(parsed.activity.tags) <= 5
        /\ NoDuplicates(LlmTags) => NoDuplicates(parsed.activity.tags)
        /\ Prefix(parsed.activity.tags, Len(LlmTags)) = Prefix(LlmTags, 5)

\* C27: the year of the event that parse builds is the year extracted from the
\* text when one is extracted (the year of the extracted date and timeline), and
\* the current calendar year only when none is extracted
C27_YearIsExtractedYear ==
    Parsed =>
        LET date == parsed.activity.events[1].date
        IN  parsed.activity.events[1].year
              = IF date = <<>> THEN parsed.now_year ELSE date[1].y

\* C27: "2024年6月4日 09:00-18:00" parsed in 2025 gives an event of the year 2025
\* with the date 2024-06-04 and a timeline in 2024
C27_CurrentYearBesideExtractedDate ==
    /\ Parsed
    /\ source_text = Text_LastYear
    /\ parsed.now_year = 2025
    /\ parsed.activity.events[1].year = 2025
    /\ parsed.activity.events[1].date = <<DateStr(2024, 6, 4)>>
    /\ parsed.activity.events[1].timeline
         = << TimelineEvent(Deadline(2024, 6, 4, 9, 0, 0, ""), Comment_start),
              TimelineEvent(Deadline(2024, 6, 4, 18, 0, 0, ""), Comment_end) >>

\* C27, as the code behaves: the year of the event is datetime.now().year,
\* whatever the text holds
C27_YearIsCurrentYear ==
    Parsed => parsed.activity.events[1].year = parsed.now_year

---------------------------------------------------------------------------
(* DataParser.parse                                                        *)

\* "", "Go\nab", "开源之夏 2024", "Open Source Summit\n地点：上海交大闵行",
\* a line of 100 letters, and Example 1
DataParserTexts ==
    { <<>>,
      <<"G", "o", "\n", "a", "b">>,
      <<"U+5F00", "U+6E90", "U+4E4B", "U+590F", " ", "2", "0", "2", "4">>,
      <<"O", "p", "e", "n", " ", "S", "o", "u", "r", "c", "e", " ", "S", "u", "m", "m", "i", "t", "\n", "U+5730", "U+70B9", "U+FF1A", "U+4E0A", "U+6D77", "U+4EA4", "U+5927", "U+95F5", "U+884C">>,
      Rep("a", 100),
      Example1 }

OpenAiReply(decodes, value, text) ==
    [raised |-> FALSE,
     content |-> [t |-> "str", fence |-> FALSE, decodes |-> decodes, value |-> value,
                  text |-> text]]
NoOpenAi == [OpenAiReply(FALSE, Null, <<>>) EXCEPT !.content.t = "null"]

\* Responses that json.loads rejects: "Sorry" and "No event 2024"
UndecodableReplies ==
    { OpenAiReply(FALSE, Null, <<"S", "o", "r", "r", "y">>),
      OpenAiReply(FALSE, Null,
                  <<"N", "o", " ", "e", "v", "e", "n", "t", " ", "2", "0", "2", "4">>) }

OpenAiOutcomes ==
    { [NoOpenAi EXCEPT !.raised = TRUE],
      NoOpenAi,
      OpenAiReply(TRUE, JList(<<>>), <<"[","]">>),
      OpenAiReply(TRUE, J("dict", EmptyDict), <<"{","}">>) }
      \cup { OpenAiReply(TRUE, reply.content.value, <<"{","}">>) : reply \in LlmReplies }
      \cup UndecodableReplies

InitDataParser ==
    /\ validator = DataValidator_init(EmptyCorpus)
    /\ settings = [VALIDATE_LINKS |-> FALSE]
    /\ activity = NoActivity
    /\ validation = NoValidation
    /\ source_text \in DataParserTexts
    /\ extracted = NoExtracted
    /\ parser \in { DataParser_init(use_github_models, env) :
                       use_github_models \in BOOLEAN, env \in Environments }
    /\ parsed = NoParsed
    /\ run = NoRun
    /\ generated = NoGenerated

\* activity = await parser.parse(extracted_text)
ParseData ==
    /\ ~parsed.called
    /\ \E now_year \in Years,
          net \in IF parser.github_parser THEN NetOutcomes ELSE {NoNet},
          openai \in IF parser.llm THEN OpenAiOutcomes ELSE {NoOpenAi} :
          parsed' = [called |-> TRUE, raised |-> "",
                     activity |-> DataParser_parse(parser, source_text, net, openai,
                                                   now_year),
                     net |-> net, openai |-> openai, now_year |-> now_year]
    /\ UNCHANGED <<validate_vars, source_text, extracted, parser, run, generated>>

NextDataParser == ParseData

SpecDataParser == InitDataParser /\ [][NextDataParser]_vars

GitHubParsed == parsed.called /\ parser.github_parser

FallbackRecord ==
    /\ parsed.activity = DataParser_create_fallback_activity(source_text, parsed.now_year)
    /\ parsed.activity.title # <<>>
    /\ parsed.activity.category = "activity"
    /\ Len(parsed.activity.events) = 1

\* C5: with the GitHub Models backend, an authentication failure, another
\* non-200 status, a transport exception or undecodable JSON makes parse
\* return the fallback record of the extracted text: non-empty title,
\* category activity, exactly one event.
C5_FallbackOnLlmFailure ==
    (/\ GitHubParsed
     /\ \/ parsed.net.raised
        \/ parsed.net.status # 200
        \/ parsed.net.content.t = "str" /\ ~parsed.net.content.decodes)
        => FallbackRecord

\* C5 fails: on status 401 parse returns a record with an empty title and no
\* event
C5_AuthFailureGivesEmptyRecord ==
    /\ GitHubParsed
    /\ parsed.net = Status(401)
    /\ parsed.activity.title = <<>>
    /\ parsed.activity.events = <<>>

\* C5, the part that holds: a transport exception, a reply without choices,
\* undecodable JSON or JSON that is no object gives the fallback record.
C5_FallbackOnExceptionOrBadJson ==
    (/\ GitHubParsed
     /\ \/ parsed.net.raised
        \/ /\ parsed.net.status = 200
           /\ \/ ~parsed.net.has_choices
              \/ parsed.net.content.t # "str"
              \/ ~parsed.net.content.decodes
              \/ parsed.net.content.value.t # "dict")
        => FallbackRecord


\* The JSON objects that the backends of the run gave to DataParser
LlmDicts ==
    (IF parser.github_parser THEN {GitHubModelsParser_parse(TRUE, parsed.net)} ELSE {})
    \cup (IF /\ parser.llm /\ ~parsed.openai.raised
              /\ parsed.openai.content.t = "str" /\ parsed.openai.content.decodes
              /\ parsed.openai.content.value.t = "dict"
           THEN {parsed.openai.content.value.v} ELSE {})

TwoEventReply ==
    Reply(LlmDict(JStr(Title_OSPP), JList(<<LlmEvent(LlmTimelineOf(1)),
                                            LlmEvent(LlmTimelineOf(3))>>)))

\* C20: the record that a parser of the single-source pipeline returns has
\* exactly one event, whatever the LLM returned.
C20_ExactlyOneEvent ==
    parsed.called => Len(parsed.activity.events) = 1

\* C20's case: the GitHub Models reply has two events, and the record that
\* DataParser.parse returned has both
C20_TwoLlmEventsKept ==
    /\ GitHubParsed
    /\ parsed.net = TwoEventReply
    /\ Len(parsed.activity.events) = 2
    /\ Len(parsed.activity.events[1].timeline) = 1
    /\ Len(parsed.activity.events[2].timeline) = 3

\* C20, as the code behaves: the record of DataParser.parse is a fallback
\* record with one event without timeline, or it has the events of the
\* LLM's object that could be converted, none and several included.
C20_OneEventOrLlmEvents ==
    parsed.called =>
        \/ /\ Len(parsed.activity.events) = 1
           /\ parsed.activity.events[1].timeline = <<>>
           /\ parsed.activity.events[1].link = <<>>
           /\ parsed.activity.tags = <<>>
        \/ \E d \in LlmDicts :
              /\ d.events.t \in {"absent", "list"}
              /\ parsed.activity.events = dict_to_events(GetOr(d.events, <<>>))

\* The record of EnhancedDataParser.parse has exactly one event
EnhancedRecordHasOneEvent == Parsed => Len(parsed.activity.events) = 1

\* What the GitHub Models attempt of the run gave: <<record>>, or <<>> when it
\* failed or was empty
GitHubAttempt == github_branch(GitHubModelsParser_parse(TRUE, parsed.net))

\* C29: a DataParser has at most one LLM backend (github_parser and llm are
\* never both set), so a GitHub Models attempt that failed or was empty is
\* never followed by an OpenAI attempt: parse returns the record of the attempt
\* or else the rule-based fallback of the extracted text, and always a record
C29_AtMostOneBackend ==
    /\ parser.kind = "DataParser" => ~(parser.github_parser /\ parser.llm)
    /\ parsed.called => parsed.raised = ""
    /\ GitHubParsed =>
         /\ parsed.openai = NoOpenAi
         /\ parsed.activity
              = IF GitHubAttempt # <<>> THEN GitHubAttempt[1]
                ELSE DataParser_create_fallback_activity(source_text, parsed.now_year)

\* C29: the request to GitHub Models fails in transport and parse returns the
\* fallback record of Example 1, without an OpenAI attempt
C29_FallbackAfterFailedGitHub ==
    /\ GitHubParsed
    /\ parsed.net = Transport
    /\ GitHubAttempt = <<>>
    /\ ~parser.llm
    /\ parsed.openai = NoOpenAi
    /\ source_text = Example1
    /\ parsed.activity = DataParser_create_fallback_activity(Example1, parsed.now_year)

\* parse was run with the OpenAI backend and the response was not JSON
UndecodableOpenAi ==
    parsed.called /\ parser.llm /\ parsed.openai \in UndecodableReplies

\* Title, year and ID of a record of one event
TitleYearId(record) == <<record.title, record.events[1].year, record.events[1].id>>

\* C30: with the OpenAI backend and a response that is not JSON, the fallback
\* record depends on the extracted text alone: a run on the same text with
\* another undecodable response returns the same title, year and ID
C30_FallbackOfExtractedTextOnly ==
    UndecodableOpenAi =>
        \A other \in UndecodableReplies :
            TitleYearId(DataParser_parse(parser, source_text, parsed.net, other,
                                         parsed.now_year))
              = TitleYearId(parsed.activity)

\* C30: Example 1 with the response "Sorry" gives the record titled "Sorry",
\* which is not the fallback record of Example 1
C30_RecordOfResponseText ==
    /\ UndecodableOpenAi
    /\ source_text = Example1
    /\ parsed.openai.content.text = <<"S", "o", "r", "r", "y">>
    /\ parsed.activity.title = <<"S", "o", "r", "r", "y">>
    /\ TitleYearId(parsed.activity)
         # TitleYearId(DataParser_create_fallback_activity(Example1, parsed.now_year))

\* C30, as the code behaves: the record is the fallback record of the stripped
\* response text
C30_FallbackOfResponseText ==
    UndecodableOpenAi =>
        parsed.activity
          = DataParser_create_fallback_activity(strip(parsed.openai.content.text),
                                                parsed.now_year)

---------------------------------------------------------------------------
(* information_extraction.py: InformationExtractor                         *)

\* ExtractionResult as far as the pipeline reads it; error is "" for None
ExtractionResult(source_type, extracted_text, error) ==
    [source_type |-> source_type, extracted_text |-> extracted_text, error |-> error]
NoExtraction == ExtractionResult("", <<>>, "")

\* An extraction from a URL that keeps the text it had when it failed
extract_from_url_keeping_text(url, fetch) ==
    ExtractionResult("url", fetch.text,
                     CASE fetch.raised = "" -> ""
                       [] fetch.raised = "RequestException" -> "network request error"
                       [] OTHER -> "extraction failed")

\* InformationExtractor._extract_from_url; fetch is what the request and the
\* HTML steps did: [raised, text]
InformationExtractor_extract_from_url(url, fetch) ==
    CASE fetch.raised = "" -> ExtractionResult("url", fetch.text, "")
      [] fetch.raised = "RequestException" ->
           ExtractionResult("url", <<>>, "network request error")
      [] OTHER -> ExtractionResult("url", <<>>, "extraction failed")

\* Path(file_path).suffix.lower()
Greatest(S) == CHOOSE i \in S : \A j \in S : j <= i

suffix_from(file_path, dots) ==
    IF dots = {} \/ Greatest(dots) = Len(file_path) THEN <<>>
    ELSE lower(SubSeq(file_path, Greatest(dots), Len(file_path)))

Suffix(file_path) ==
    suffix_from(file_path, {i \in 2..Len(file_path) : file_path[i] = "."})

TextSuffixes == { <<".","t","x","t">>, <<".","m","d">> }
PdfSuffixes == { <<".","p","d","f">> }
ImageSuffixes == { <<".","j","p","g">>, <<".","j","p","e","g">>, <<".","p","n","g">>,
                   <<".","g","i","f">>, <<".","w","e","b","p">> }

\* InformationExtractor._extract_from_file; file is the file as the calls
\* find it: [exists, too_big, raised, text]
SourceTypeOf(suffix) ==
    IF suffix \in TextSuffixes THEN "text"
    ELSE IF suffix \in PdfSuffixes THEN "pdf" ELSE "image"

extract_by_suffix(file, suffix, type) ==
    IF ~file.exists THEN ExtractionResult("file", <<>>, "file does not exist")
    ELSE IF file.too_big THEN ExtractionResult("file", <<>>, "file too large")
    ELSE IF suffix \notin TextSuffixes \cup PdfSuffixes \cup ImageSuffixes
    THEN ExtractionResult("file", <<>>, "unsupported file format")
    ELSE IF file.raised
    THEN ExtractionResult(IF type = "text" THEN "file" ELSE type, <<>>,
                          "file processing failed")
    ELSE ExtractionResult(type, file.text, "")

InformationExtractor_extract_from_file(file_path, file) ==
    extract_by_suffix(file, Suffix(file_path), SourceTypeOf(Suffix(file_path)))

\* InformationExtractor._extract_from_text
InformationExtractor_extract_from_text(text) == ExtractionResult("text", text, "")

\* InformationExtractor.extract(source) for a str; world is what the network
\* and the file system do: [fetch, exists, file]
InformationExtractor_extract(source, world) ==
    IF HasPrefix(source, <<"h","t","t","p",":","/","/">>)
       \/ HasPrefix(source, <<"h","t","t","p","s",":","/","/">>)
    THEN [raised |-> "",
          result |-> InformationExtractor_extract_from_url(source, world.fetch)]
    ELSE IF world.exists = "OSError"
    THEN [raised |-> "OSError", result |-> NoExtraction]
    ELSE IF world.exists = "yes"
    THEN [raised |-> "",
          result |-> InformationExtractor_extract_from_file(source, world.file)]
    ELSE [raised |-> "", result |-> InformationExtractor_extract_from_text(source)]


---------------------------------------------------------------------------
(* result_feedback.py, workflow_extract.py, main.py                        *)

\* A comment: the function that wrote it and the parts it has.  validation is
\* <<result>> when the validation report is one of them, <<>> otherwise.
Report(generator, parts, validation_result) ==
    [generator |-> generator, parts |-> parts, validation |-> validation_result]
NoReport == Report("", {}, <<>>)

\* ResultFeedback.generate_comment / generate_issue_comment; parsed_activity
\* and validation_result are Optional
generate_issue_comment(extraction_result, parsed_activity, validation_result) ==
    IF extraction_result.error # ""
    THEN Report("generate_issue_comment", {"extraction failed"}, <<>>)
    ELSE Report("generate_issue_comment",
                {"extraction summary", "footer"}
                  \cup (IF parsed_activity # <<>> THEN {"parsed activity"} ELSE {})
                  \cup (IF validation_result # <<>> THEN {"validation report"} ELSE {}),
                validation_result)

\* format_default_comment(activity, extraction)
format_default_comment(parsed_activity, extraction_result) ==
    Report("format_default_comment", {"parsed activity", "extraction summary"}, <<>>)

\* SimpleDataParser.parse: the rule parser is not expanded; it returns a
\* record with exactly one event, or the fallback record when a rule raises.
SimpleDataParser_parse(extracted_text, now_year) ==
    { DataParser_create_fallback_activity(extracted_text, now_year),
      ParsedActivity(DataParser_extract_activity_hint(extracted_text), <<>>,
                     "conference", <<>>, <<GoodEvent>>) }

\* parse_activity_data(extracted_text, use_llm): the records it can return
parse_activity_data(extracted_text, use_llm, env, openai, now_year) ==
    IF use_llm /\ env.OPENAI_API_KEY
    THEN { DataParser_parse(DataParser_init(FALSE, env), extracted_text, NoNet, openai,
                            now_year) }
    ELSE SimpleDataParser_parse(extracted_text, now_year)

\* A run of an entry point: the steps it took, what it returned or printed
Run(entry, steps, extraction, success, error, report, data, raised) ==
    [entry |-> entry, steps |-> steps, extraction |-> extraction, success |-> success,
     error |-> error, report |-> report, data |-> data, raised |-> raised]

\* getattr(validation, name): <<validation>> when the attribute exists
GetAttr(result, name) == IF name \in ValidationResultAttrs THEN <<result>> ELSE <<>>

\* extract_activity_workflow(input_data).  w is what the environment does
\* during the run: [import_ok, extract, net, openai, now_year, head,
\* comment_raises]; extract is the outcome of extractor.extract.
Stopped(entry, steps, extraction, error, raised) ==
    [run |-> Run(entry, steps, extraction, FALSE, error, NoReport, <<>>, raised),
     parsed |-> <<>>, validation |-> <<>>]

\* validation = validator.validate(activity); len(validation.passed)
handed_over(result) ==
    IF result.raised # "" THEN <<>>
    ELSE IF GetAttr(result, "passed") = <<>> THEN <<>>
    ELSE <<result>>

\* Step 4 of the workflow and its return value
workflow_report(w, extraction, parsed_activity, result) ==
    [run |-> Run("extract_activity_workflow",
                 <<"extract", "parse", "validate", "report">>, extraction, TRUE, "",
                 IF w.comment_raises
                 THEN format_default_comment(parsed_activity, extraction)
                 ELSE generate_issue_comment(extraction, <<parsed_activity>>,
                                             handed_over(result)),
                 <<parsed_activity>>, ""),
     parsed |-> <<parsed_activity>>, validation |-> <<result>>]

\* Step 3 of the workflow
workflow_validate(self_validator, env, w, extraction, parsed_activity) ==
    workflow_report(w, extraction, parsed_activity,
                    DataValidator_validate(self_validator, parsed_activity, env, w.head))

\* Step 2 of the workflow
workflow_parse(self_validator, env, w, extraction) ==
    workflow_validate(self_validator, env, w, extraction,
        DataParser_parse(DataParser_init(TRUE, env), extraction.extracted_text,
                         w.net, w.openai, w.now_year))

extract_activity_workflow(input_data, self_validator, env, w) ==
    IF input_data = <<>> \/ strip(input_data) = <<>>
    THEN Stopped("extract_activity_workflow", <<>>, NoExtraction, "no input", "")
    ELSE IF ~w.import_ok
    THEN Stopped("extract_activity_workflow", <<>>, NoExtraction, "import failed", "")
    ELSE IF w.extract.raised # ""
    THEN Stopped("extract_activity_workflow", <<"extract">>, NoExtraction,
                 "extraction failed", "")
    ELSE IF w.extract.result.extracted_text = <<>>
    THEN Stopped("extract_activity_workflow", <<"extract">>, w.extract.result,
                 "no text", "")
    ELSE workflow_parse(self_validator, env, w, w.extract.result)

OutputFormats == {"markdown", "json", "yaml"}

\* main(source, output_format); w as above, with parse the record that
\* parse_activity_data returned
main_output(output_format, w, extraction, result) ==
    CASE output_format = "markdown" ->
             generate_issue_comment(extraction, <<w.parse>>, <<result>>)
      [] output_format = "json" ->
             Report("json", {"extraction", "parsed_activity", "validation"}, <<result>>)
      [] OTHER -> Report("yaml", {"parsed_activity"}, <<>>)

main_validated(output_format, w, extraction, result) ==
    IF result.raised # ""
    THEN [run |-> Run("main", <<"extract", "parse", "validate">>, extraction, FALSE, "",
                      NoReport, <<>>, result.raised),
          parsed |-> <<w.parse>>, validation |-> <<result>>]
    ELSE [run |-> Run("main", <<"extract", "parse", "validate", "report">>, extraction,
                      TRUE, "", main_output(output_format, w, extraction, result),
                      <<w.parse>>, ""),
          parsed |-> <<w.parse>>, validation |-> <<result>>]

main(source, output_format, self_validator, env, w) ==
    IF w.extract.raised # ""
    THEN Stopped("main", <<"extract">>, NoExtraction, "", w.extract.raised)
    ELSE IF w.extract.result.error # ""
    THEN Stopped("main", <<"extract">>, w.extract.result, w.extract.result.error, "")
    ELSE main_validated(output_format, w, w.extract.result,
                        DataValidator_validate(self_validator, w.parse, env, w.head))


---------------------------------------------------------------------------
(* The entry points                                                        *)

\* "", "  ", "https://x", "notes.txt", "a.bin", Example 1
Sources ==
    { <<>>, <<" ", " ">>, GoodLink, <<"n", "o", "t", "e", "s", ".", "t", "x", "t">>,
      <<"a", ".", "b", "i", "n">>, Example1 }

Fetches ==
    { [raised |-> "", text |-> Example1],
      [raised |-> "", text |-> <<>>],
      [raised |-> "RequestException", text |-> <<>>],
      [raised |-> "Exception", text |-> Example1] }

ReadableFile == [exists |-> TRUE, too_big |-> FALSE, raised |-> FALSE, text |-> Example1]
Files ==
    { ReadableFile,
      [ReadableFile EXCEPT !.text = <<>>],
      [ReadableFile EXCEPT !.exists = FALSE],
      [ReadableFile EXCEPT !.too_big = TRUE],
      [ReadableFile EXCEPT !.raised = TRUE] }

\* What extractor.extract(source) can do
ExtractOutcomes(source) ==
    { InformationExtractor_extract(source, [fetch |-> fetch, exists |-> exists,
                                            file |-> file])
      : fetch \in Fetches, exists \in {"yes", "no", "OSError"}, file \in Files }

\* A reply whose timeline has a zone-qualified deadline and then a naive one
MixedTimeline ==
    JList(<< TimelineDict({"deadline", "comment"},
                          Deadline(2025, 6, 4, 12, 0, 0, "+08:00"), <<"c">>),
             TimelineDict({"deadline", "comment"},
                          Deadline(2025, 6, 4, 9, 0, 0, ""), <<"c">>) >>)

PipelineReplies ==
    { LlmDict(JStr(Title_OSPP), JList(<<LlmEvent(LlmTimeline({"deadline", "comment"}))>>)),
      LlmDict(JStr(Title_OSPP), JList(<<LlmEvent(MixedTimeline)>>)) }
PipelineNets == { Transport, Status(401) } \cup { Reply(dict) : dict \in PipelineReplies }
PipelineOpenAi ==
    { [NoOpenAi EXCEPT !.raised = TRUE] }
      \cup { OpenAiReply(TRUE, J("dict", dict), <<"{","}">>) : dict \in PipelineReplies }

\* config.settings: the tokens and the link check; both optional packages
\* are installed
PipelineSettings ==
    [VALIDATE_LINKS : BOOLEAN, GITHUB_TOKEN : BOOLEAN, OPENAI_API_KEY : BOOLEAN,
     GITHUB_MODELS_AVAILABLE : {TRUE}, LANGCHAIN_AVAILABLE : {TRUE}]

\* A corpus that holds the id of the fallback record of Example 1
CorpusWithFallbackId ==
    [c \in Range(DATA_FILE_MAP) |->
        IF c = "conference"
        THEN CorpusFile("ok", << [tags |-> <<>>,
                                  events |-> << CorpusEvent(
                                      DataParser_create_fallback_activity(Example1, 2025)
                                          .events[1].id) >>] >>)
        ELSE CorpusFile("missing", <<>>)]

InitPipeline ==
    /\ validator \in { DataValidator_init(EmptyCorpus),
                       DataValidator_init(CorpusWithFallbackId) }
    /\ settings \in PipelineSettings
    /\ activity = NoActivity
    /\ validation = NoValidation
    /\ source_text \in Sources
    /\ extracted = NoExtracted
    /\ parser = NoParser
    /\ parsed = NoParsed
    /\ run = NoRun
    /\ generated = NoGenerated

\* The variables after a run that gave outcome
AfterRun(outcome, made_parser) ==
    /\ run' = outcome.run
    /\ parsed' = IF outcome.parsed = <<>> THEN parsed
                 ELSE [called |-> TRUE, raised |-> "", activity |-> outcome.parsed[1]]
    /\ parser' = IF outcome.parsed = <<>> THEN parser ELSE made_parser
    /\ activity' = IF outcome.validation = <<>> THEN activity ELSE outcome.parsed[1]
    /\ validation' = IF outcome.validation = <<>> THEN validation
                     ELSE ValidationOutcome(outcome.validation[1])
    /\ UNCHANGED <<validator, settings, source_text, extracted, generated>>

\* result = await extract_activity_workflow(input_data)
Workflow ==
    /\ run.entry = ""
    /\ \E import_ok \in BOOLEAN, extract \in ExtractOutcomes(source_text),
          net \in PipelineNets, openai \in PipelineOpenAi, now_year \in Years,
          head \in HeadOutcomes, comment_raises \in BOOLEAN :
          AfterRun(extract_activity_workflow(source_text, validator, settings,
                       [import_ok |-> import_ok, extract |-> extract, net |-> net,
                        openai |-> openai, now_year |-> now_year, head |-> head,
                        comment_raises |-> comment_raises]),
                   DataParser_init(TRUE, settings))

\* asyncio.run(main(source, output_format))
Main ==
    /\ run.entry = ""
    /\ \E output_format \in OutputFormats, extract \in ExtractOutcomes(source_text),
          openai \in PipelineOpenAi, now_year \in Years, head \in HeadOutcomes :
          \E parse \in parse_activity_data(extract.result.extracted_text,
                                           settings.OPENAI_API_KEY, settings, openai,
                                           now_year) :
              AfterRun(main(source_text, output_format, validator, settings,
                            [extract |-> extract, parse |-> parse, head |-> head]),
                       IF settings.OPENAI_API_KEY THEN DataParser_init(FALSE, settings)
                       ELSE [NoParser EXCEPT !.kind = "SimpleDataParser"])

NextPipeline == Workflow \/ Main

SpecPipeline == InitPipeline /\ [][NextPipeline]_vars

\* C6: a workflow run that returns success = TRUE and in which validate
\* returned has handed validate's result to the report generator, and the
\* comment carries the validation report.
C6_ReportCarriesValidation ==
    (/\ run.entry = "extract_activity_workflow"
     /\ run.success
     /\ validation.called /\ validation.raised = "")
        => /\ run.report.validation # <<>>
           /\ ValidationOutcome(run.report.validation[1]) = validation
           /\ "validation report" \in run.report.parts

\* C6 fails: validate returned findings (an error among them), the run
\* succeeded, and the comment was generated without any validation
C6_FindingsDropped ==
    /\ run.entry = "extract_activity_workflow"
    /\ run.success
    /\ validation.called /\ validation.raised = ""
    /\ validation.errors # <<>>
    /\ run.report.generator = "generate_issue_comment"
    /\ run.report.validation = <<>>
    /\ "validation report" \notin run.report.parts

\* C7: when extraction returns a result with a non-empty error, the entry
\* point stops: no parse, validate or report step runs and no activity record
\* is emitted.
C7_ErrorStopsPipeline ==
    (run.entry # "" /\ run.extraction.error # "")
        => /\ run.steps = <<"extract">>
           /\ ~parsed.called
           /\ ~validation.called
           /\ run.report = NoReport
           /\ run.data = <<>>
           /\ ~run.success

\* C7 happens: both entry points stop on a failed request
C7_StoppedOnRequestError ==
    /\ run.entry \in {"main", "extract_activity_workflow"}
    /\ source_text = GoodLink
    /\ run.extraction.error = "network request error"
    /\ run.steps = <<"extract">>
    /\ ~run.success


---------------------------------------------------------------------------
(* The ID generators: one generator is applied to one title or text        *)

MaxIdLen == 3
IdAlphabet == { "a", "Z", "7", "-", " ", "U+5F00" }

\* Titles and texts: every short string of the alphabet, and texts with
\* several lines, with a year, and with hyphens at the ends
IdTexts ==
    SeqsUpTo(IdAlphabet, MaxIdLen)
    \cup { <<"-","-","O","p","e","n"," ","D","a","y"," ","2","0","2","4","-","-">>,
           <<"a","\n","-","U+5F00","U+6E90","-","!","\n","Z","z">>,
           <<"-"," ","\n","K","u","b","e","C","o","n","-",",","2","0","2","6">>,
           <<"_","_","i","n","i","t","_","_">> }

InitIds ==
    /\ validator = DataValidator_init(CHOOSE files \in CorpusFiles : TRUE)
    /\ settings = [VALIDATE_LINKS |-> FALSE]
    /\ activity = NoActivity
    /\ validation = NoValidation
    /\ source_text \in IdTexts
    /\ extracted = NoExtracted
    /\ parser = NoParser
    /\ parsed = NoParsed
    /\ run = NoRun
    /\ generated = NoGenerated

\* SimpleDataParser()._generate_id(title, year)
GenerateId ==
    /\ generated.by = ""
    /\ \E year \in Years :
          generated' = [by |-> "_generate_id",
                        id |-> SimpleDataParser_generate_id(source_text, year)]
    /\ UNCHANGED <<validate_vars, parse_vars, run>>

\* DataParser()._create_fallback_activity(text).events[0].id
FallbackId ==
    /\ generated.by = ""
    /\ \E now_year \in Years :
          generated' = [by |-> "_create_fallback_activity",
                        id |-> DataParser_create_fallback_activity(
                                   source_text, now_year).events[1].id]
    /\ UNCHANGED <<validate_vars, parse_vars, run>>

\* validator._normalize_id(id_str)
NormalizeId ==
    /\ generated.by = ""
    /\ generated' = [by |-> "_normalize_id",
                     id |-> DataValidator_normalize_id(source_text)]
    /\ UNCHANGED <<validate_vars, parse_vars, run>>

NextIds == GenerateId \/ FallbackId \/ NormalizeId

SpecIds == InitIds /\ [][NextIds]_vars

WellFormedId(id) ==
    /\ \A i \in 1..Len(id) : id[i] \in IdChars
    /\ id # <<>> => (id[1] # "-" /\ id[Len(id)] # "-")
    /\ \A i \in 1..(Len(id) - 1) : ~(id[i] = "-" /\ id[i + 1] = "-")

\* C13: every ID that _generate_id, the fallback record and _normalize_id
\* produce contains only characters of [a-z0-9-], does not start or end
\* with '-', and has no two consecutive '-'.
C13_GeneratedIdsWellFormed ==
    generated.by # "" => WellFormedId(generated.id)

\* C13 happens: a text with hyphens at both ends, an upper-case word, blanks
\* and a year gave the fallback record's ID
C13_FallbackIdOfHyphenatedText ==
    /\ generated.by = "_create_fallback_activity"
    /\ source_text = <<"-","-","O","p","e","n"," ","D","a","y"," ","2","0","2","4","-","-">>
    /\ generated.id = <<"o","p","e","n","-","d","a","y","-","2","0","2","4","-","2","0","2","4">>

=============================================================================
